---- MODULE Spec2Model ----
(***************************************************************************)
(* Model of the rice-opencode document plugin: the preset manager          *)
(* (PresetManager: loadPreset, mergePresets, cache, createPreset), the     *)
(* template install tool (docs_templates_install) and the pandoc command   *)
(* builder (PandocBuilder: configuration calls, applyPreset, build,        *)
(* execute).                                                               *)
(*                                                                         *)
(* JavaScript objects are functions from key strings to values; a key that *)
(* is undefined is a key outside the DOMAIN.  Strings are TLA+ strings,    *)
(* concatenated with \o as template literals do.  File paths are sequences *)
(* of segments (the string split at "/"), an absolute path starting with   *)
(* the empty segment.                                                      *)
(***************************************************************************)
EXTENDS Integers, Sequences, FiniteSets, TLC

VARIABLES
    files,      \* preset YAML files on disk: <<scope, name>> -> parsed PresetConfig
    installed,  \* template, CSL and asset files on disk: set of absolute paths
    cache,      \* PresetManager.cache: cache key -> ResolvedPreset
    last,       \* outcome of the last preset-manager / install operation
    returned,   \* <<name, logo>> -> what loadPreset returned since the cache was last cleared
    mParent,    \* mergePresets: the parent argument
    mChild,     \* mergePresets: the child argument
    mMerged,    \* mergePresets: the returned object
    args,       \* PandocBuilder.args
    inputFile,  \* PandocBuilder.inputFile
    outputFile, \* PandocBuilder.outputFile
    calls,      \* the flag-appending calls made on the builder so far, in order
    built,      \* what the last build() returned
    proc,       \* the finished subprocess: exitCode, stdout, stderr
    execResult, \* what the last execute() returned
    registryFile, \* .opencode/docs-registry.json: how it parses, and its drafts
    docsDir,    \* .opencode/docs: document id -> the files of its draft directory
    clock,      \* the time Date reports
    inv         \* the tool invocations in progress or finished, by slot

vars == <<files, installed, cache, last, returned, mParent, mChild, mMerged,
          args, inputFile, outputFile, calls, built, proc, execResult,
          registryFile, docsDir, clock, inv>>

presetVars  == <<files, installed, cache, last, returned>>
mergeVars   == <<mParent, mChild, mMerged>>
builderVars == <<args, inputFile, outputFile, calls, built, proc, execResult>>
pluginVars  == <<registryFile, docsDir, clock, inv>>

----------------------------------------------------------------------------
(* JavaScript object helpers *)

\* the empty object {} (also what spreading undefined contributes)
EmptyObj == <<>>

Has(o, k) == k \in DOMAIN o

\* o?.k, with EmptyObj standing for undefined where only spreading follows
Opt(o, k) == IF k \in DOMAIN o THEN o[k] ELSE EmptyObj

\* {...a, ...b}
Spread(a, b) ==
    [k \in (DOMAIN a) \cup (DOMAIN b) |-> IF k \in DOMAIN b THEN b[k] ELSE a[k]]

\* {...o, k: v} where v may be undefined (defined = FALSE): the key is then
\* carried with the value undefined, which every later read treats as absent
SetKey(o, k, defined, v) ==
    IF defined
    THEN [j \in (DOMAIN o) \cup {k} |-> IF j = k THEN v ELSE o[j]]
    ELSE [j \in (DOMAIN o) \ {k} |-> o[j]]

\* `${value}` for a boolean
BoolStr(b) == IF b THEN "true" ELSE "false"

----------------------------------------------------------------------------
(* BUILTIN_PRESETS *)

\* variable values are kept as the strings `${value}` renders them to
SchoolReport ==
    [ name |-> "school-report",
      description |-> "SIT/UofG School Report with optional logos and adjustable margins",
      template |-> [ path |-> <<"sit-uofg", "template.latex">> ],
      pdf_engine |-> "xelatex",
      logos |-> [ sit |-> <<"assets", "sit-logo.png">>,
                  uofg |-> <<"assets", "uofg-logo.png">>,
                  both |-> <<"both">> ],
      style |-> [ titlepage |-> TRUE, toc |-> TRUE, toc_own_page |-> TRUE,
                  colorlinks |-> TRUE, linkcolor |-> "blue",
                  number_sections |-> TRUE ],
      pandoc |-> [ from |-> "markdown+smart+pipe_tables",
                   variables |-> ("top-margin" :> "2.5cm") @@
                                 ("bottom-margin" :> "2.5cm") @@
                                 ("left-margin" :> "2.5cm") @@
                                 ("right-margin" :> "2.5cm") ],
      required_fields |-> <<"title">>,
      optional_fields |-> <<"author", "date", "course", "group",
                            "project-title", "authors">> ]

IeeeConference ==
    [ name |-> "ieee-conference",
      description |-> "IEEE Conference Paper (two-column, US Letter)",
      template |-> [ path |-> <<"ieee", "template.latex">>,
                     document_class |-> "IEEEtran",
                     class_options |-> <<"conference", "10pt", "letterpaper">> ],
      pdf_engine |-> "pdflatex",
      citation |-> [ style |-> "ieee", csl_file |-> <<"ieee.csl">> ],
      pandoc |-> [ from |-> "markdown+citations+smart",
                   variables |-> [ colorlinks |-> "true", linkcolor |-> "black" ] ],
      required_fields |-> <<"title", "author", "abstract", "keywords">> ]

IeeeJournal ==
    [ name |-> "ieee-journal",
      description |-> "IEEE Journal Paper (two-column)",
      extends |-> "ieee-conference",
      template |-> [ path |-> <<"ieee", "template.latex">>,
                     document_class |-> "IEEEtran",
                     class_options |-> <<"journal", "10pt", "letterpaper">> ] ]

AcmSigconf ==
    [ name |-> "acm-sigconf",
      description |-> "ACM SIGCONF Paper",
      template |-> [ path |-> <<"acm", "template.latex">>,
                     document_class |-> "acmart",
                     class_options |-> <<"sigconf">> ],
      pdf_engine |-> "pdflatex",
      citation |-> [ style |-> "acm", csl_file |-> <<"acm-sig-proceedings.csl">> ],
      pandoc |-> [ from |-> "markdown+citations+smart" ],
      required_fields |-> <<"title", "author", "abstract", "keywords">> ]

Lncs ==
    [ name |-> "lncs",
      description |-> "Springer LNCS Paper",
      template |-> [ path |-> <<"lncs", "template.latex">>,
                     document_class |-> "llncs" ],
      pdf_engine |-> "pdflatex",
      citation |-> [ style |-> "springer-lncs", csl_file |-> <<"springer-lncs.csl">> ],
      pandoc |-> [ from |-> "markdown+citations+smart" ],
      required_fields |-> <<"title", "author", "abstract">> ]

Eisvogel ==
    [ name |-> "eisvogel",
      description |-> "General purpose professional document (Eisvogel template)",
      template |-> [ path |-> <<"eisvogel.latex">> ],
      pdf_engine |-> "xelatex",
      pandoc |-> [ from |-> "markdown+smart" ],
      style |-> [ colorlinks |-> TRUE, linkcolor |-> "blue" ],
      required_fields |-> <<"title">>,
      optional_fields |-> <<"author", "date", "subtitle">> ]

BUILTIN_PRESETS ==
    ("school-report" :> SchoolReport) @@ ("ieee-conference" :> IeeeConference) @@
    ("ieee-journal" :> IeeeJournal) @@ ("acm-sigconf" :> AcmSigconf) @@
    ("lncs" :> Lncs) @@ ("eisvogel" :> Eisvogel)

----------------------------------------------------------------------------
(* PresetManager.mergePresets *)

\* child.required_fields || parent.required_fields (an array is truthy)
OrField(parent, child, k) ==
    IF Has(child, k) THEN child[k] ELSE Opt(parent, k)

\* a merge of pandoc in which the child's variables replace the parent's
MergePandocChildVariables(parent, child) ==
    Spread(Spread(Opt(parent, "pandoc"), child.pandoc),
           [ variables  |-> Opt(child.pandoc, "variables"),
             extra_args |-> Opt(Opt(parent, "pandoc"), "extra_args")
                            \o Opt(child.pandoc, "extra_args") ])

\* the pandoc member of the merged object, when the child declares pandoc
MergePandoc(parent, child) ==
    Spread(Spread(Opt(parent, "pandoc"), child.pandoc),
           [ variables  |-> Spread(Opt(Opt(parent, "pandoc"), "variables"),
                                   Opt(child.pandoc, "variables")),
             extra_args |-> Opt(Opt(parent, "pandoc"), "extra_args")
                            \o Opt(child.pandoc, "extra_args") ])

\* a merge of a member in which the parent's keys win
MergeMemberParentWins(parent, child, k) ==
    IF Has(child, k) THEN Spread(child[k], Opt(parent, k)) ELSE Opt(parent, k)

\* a member that is spread key by key when the child declares it
MergeMember(parent, child, k) ==
    IF Has(child, k) THEN Spread(Opt(parent, k), child[k]) ELSE Opt(parent, k)

mergePresets(parent, child) ==
    LET base == Spread(parent, child)
        o1 == SetKey(base, "template", Has(child, "template") \/ Has(parent, "template"),
                     MergeMember(parent, child, "template"))
        o2 == SetKey(o1, "citation", Has(child, "citation") \/ Has(parent, "citation"),
                     MergeMember(parent, child, "citation"))
        o3 == SetKey(o2, "pandoc", Has(child, "pandoc") \/ Has(parent, "pandoc"),
                     IF Has(child, "pandoc") THEN MergePandoc(parent, child)
                                             ELSE Opt(parent, "pandoc"))
        o4 == SetKey(o3, "logos", Has(child, "logos") \/ Has(parent, "logos"),
                     MergeMember(parent, child, "logos"))
        o5 == SetKey(o4, "style", Has(child, "style") \/ Has(parent, "style"),
                     MergeMember(parent, child, "style"))
        o6 == SetKey(o5, "required_fields",
                     Has(child, "required_fields") \/ Has(parent, "required_fields"),
                     OrField(parent, child, "required_fields"))
    IN  SetKey(o6, "optional_fields",
               Has(child, "optional_fields") \/ Has(parent, "optional_fields"),
               OrField(parent, child, "optional_fields"))

----------------------------------------------------------------------------
(* TemplateResolver: the scope search project -> user -> built-in *)

SCOPES == <<"project", "user", "builtin">>

ScopeRoot(scope) ==
    CASE scope = "project" -> <<"", "proj", ".opencode">>
      [] scope = "user"    -> <<"", "home", ".config", "opencode">>
      [] OTHER             -> <<"", "pkg", "pandoc">>

NotResolved == [found |-> FALSE]

ScopeSet == { SCOPES[i] : i \in 1..Len(SCOPES) }

\* the first scope, in precedence order, that is in the set present
FirstScope(present) ==
    IF \E i \in 1..Len(SCOPES) : SCOPES[i] \in present
    THEN SCOPES[CHOOSE i \in 1..Len(SCOPES) :
                    /\ SCOPES[i] \in present
                    /\ \A j \in 1..(i - 1) : SCOPES[j] \notin present]
    ELSE "none"

PresetPath(scope, name) == ScopeRoot(scope) \o <<"presets", name \o ".yaml">>

resolvePreset(name) ==
    LET s == FirstScope({ x \in ScopeSet : <<x, name>> \in DOMAIN files })
    IN  IF s = "none" THEN NotResolved
        ELSE [found |-> TRUE, path |-> PresetPath(s, name), source |-> s]

\* a file of directory dir ("templates", "csl" or none) looked up by scope
ResolveIn(dir, rel) ==
    LET s == FirstScope({ x \in ScopeSet : (ScopeRoot(x) \o dir \o rel) \in installed })
    IN  IF s = "none" THEN NotResolved
        ELSE [found |-> TRUE, path |-> ScopeRoot(s) \o dir \o rel, source |-> s]

resolveTemplate(rel) == ResolveIn(<<"templates">>, rel)

resolveCsl(rel) == ResolveIn(<<"csl">>, rel)

resolveAsset(rel) == ResolveIn(<<>>, rel)

\* the names of the preset files the resolver lists
resolverListPresets == {f[2] : f \in DOMAIN files}

----------------------------------------------------------------------------
(* PresetManager *)

listPresetNames == (DOMAIN BUILTIN_PRESETS) \cup resolverListPresets

\* `${presetName}:${logoOption || ""}`
cacheKey(presetName, logoOption) == presetName \o ":" \o logoOption

cacheHas(c, key) == key \in DOMAIN c

\* a cache that never stores
cacheSetDropped(c, key, value) == c

cacheSet(c, key, value) == (key :> value) @@ c

\* recursion depth at which the call stack is exhausted
MaxDepth == 4

\* the ResolvedPreset built from the merged preset (source lines 739-760)
ResolvePaths(preset, sourcePath, sourceType) ==
    LET r0 == Spread(preset, [source_path |-> sourcePath, source_type |-> sourceType])
        t  == IF Has(preset, "template") /\ Has(preset.template, "path")
                 /\ preset.template.path # <<>>
              THEN resolveTemplate(preset.template.path) ELSE NotResolved
        r1 == IF t.found THEN Spread(r0, [resolved_template_path |-> t.path]) ELSE r0
        c  == IF Has(preset, "citation") /\ Has(preset.citation, "csl_file")
                 /\ preset.citation.csl_file # <<>>
              THEN resolveCsl(preset.citation.csl_file) ELSE NotResolved
    IN  IF c.found THEN Spread(r1, [resolved_csl_path |-> c.path]) ELSE r1

\* number of resolver and file-system consultations of one uncached call
\* (resolvePreset + readFileSync, resolveTemplate, resolveCsl)
Consults(preset, isBuiltin) ==
    (IF isBuiltin THEN 0 ELSE 2)
    + (IF Has(preset, "template") /\ Has(preset.template, "path") THEN 1 ELSE 0)
    + (IF Has(preset, "citation") /\ Has(preset.citation, "csl_file") THEN 1 ELSE 0)

RECURSIVE loadPreset(_, _, _, _)
loadPreset(presetName, logoOption, c, depth) ==
    LET key == cacheKey(presetName, logoOption) IN
    IF cacheHas(c, key)
    THEN [status |-> "ok", value |-> c[key], cache |-> c, hit |-> TRUE, consults |-> 0]
    ELSE
    LET isBuiltin == presetName \in DOMAIN BUILTIN_PRESETS
        resolved  == IF isBuiltin THEN NotResolved ELSE resolvePreset(presetName)
    IN
    IF ~isBuiltin /\ ~resolved.found
    THEN [status |-> "not_found", preset |-> presetName, available |-> listPresetNames,
          cache |-> c, hit |-> FALSE, consults |-> 1]
    ELSE
    LET own        == IF isBuiltin THEN BUILTIN_PRESETS[presetName]
                      ELSE files[<<resolved.source, presetName>>]
        sourcePath == IF isBuiltin THEN <<"builtin">> ELSE resolved.path
        sourceType == IF isBuiltin THEN "builtin" ELSE resolved.source
        inherits   == Has(own, "extends") /\ own.extends # ""
    IN
    IF inherits /\ depth = 0
    THEN [status |-> "stack_overflow", cache |-> c, hit |-> FALSE, consults |-> 0]
    ELSE
    LET parent == IF inherits THEN loadPreset(own.extends, "", c, depth - 1)
                  ELSE [status |-> "ok", cache |-> c, consults |-> 0]
    IN
    IF parent.status # "ok"
    THEN [parent EXCEPT !.hit = FALSE]
    ELSE
    LET preset   == IF inherits THEN mergePresets(parent.value, own) ELSE own
        rp       == ResolvePaths(preset, sourcePath, sourceType)
        wantLogo == logoOption # "" /\ Has(preset, "logos")
        hasLogo  == wantLogo /\ Has(preset.logos, logoOption)
                    /\ preset.logos[logoOption] # <<>>
        asset    == IF hasLogo THEN resolveAsset(preset.logos[logoOption])
                    ELSE NotResolved
        n        == parent.consults + Consults(preset, isBuiltin)
    IN
    IF wantLogo /\ ~hasLogo
    THEN [status |-> "logo_not_found", logo |-> logoOption,
          available |-> DOMAIN preset.logos,
          cache |-> parent.cache, hit |-> FALSE, consults |-> n]
    ELSE
    LET resolvedPreset ==
            IF asset.found THEN Spread(rp, [resolved_logo_path |-> asset.path]) ELSE rp
    IN  [status |-> "ok", value |-> resolvedPreset,
         cache |-> cacheSet(parent.cache, key, resolvedPreset),
         hit |-> FALSE, consults |-> n + (IF hasLogo THEN 1 ELSE 0)]

----------------------------------------------------------------------------
(* The preset files createPreset is called with *)

CfgA ==
    [ template |-> [ path |-> <<"t", "a.latex">>, document_class |-> "article" ],
      citation |-> [ style |-> "apa", csl_file |-> <<"apa.csl">> ],
      pdf_engine |-> "xelatex",
      pandoc |-> [ from |-> "markdown",
                   variables |-> [ geometry |-> "a4paper", fontsize |-> "11pt" ],
                   extra_args |-> <<"--a1", "--a2">> ],
      logos |-> ("b:" :> <<"assets", "l.png">>) @@ [ sit |-> <<"assets", "sit-logo.png">> ],
      style |-> [ toc |-> TRUE, linkcolor |-> "blue" ],
      required_fields |-> <<"title">> ]

CfgAProject ==
    [ description |-> "project override of a",
      pandoc |-> [ extra_args |-> <<"--p">> ] ]

CfgAB ==
    [ extends |-> "a",
      template |-> [ path |-> <<"t", "ab.latex">> ],
      pandoc |-> [ variables |-> [ fontsize |-> "12pt" ],
                   extra_args |-> <<"--ab">> ] ]

CfgC ==
    [ extends |-> "a:b",
      description |-> "no pandoc section of its own" ]

CfgEisvogel ==
    [ extends |-> "a",
      pandoc |-> [ extra_args |-> <<"--e">> ] ]

CfgLoop == [ extends |-> "loop" ]

\* <<name, config, location>>
CreateInputs ==
    { <<"a", CfgA, "user">>, <<"a", CfgAProject, "project">>,
      <<"a:b", CfgAB, "user">>, <<"c", CfgC, "project">>,
      <<"eisvogel", CfgEisvogel, "project">>, <<"loop", CfgLoop, "user">> }

\* <<presetName, logoOption>>, the empty string for no logo option
LoadInputs ==
    { <<"a", "">>, <<"a", "b:">>, <<"a", "zz">>, <<"a:b", "">>, <<"c", "">>,
      <<"eisvogel", "">>, <<"ieee-journal", "">>, <<"loop", "">>, <<"nope", "">> }

UserInstalled ==
    { ScopeRoot("user") \o <<"templates", "t", "a.latex">>,
      ScopeRoot("user") \o <<"templates", "ieee", "template.latex">>,
      ScopeRoot("user") \o <<"csl", "apa.csl">>,
      ScopeRoot("user") \o <<"assets", "l.png">> }

NoResult == [op |-> "none"]

----------------------------------------------------------------------------
(* Preset manager operations *)

\* a clear that keeps the entries
keepCache(c) == c

\* this.cache.clear()
clearCache(c) == <<>>

\* await presetManager.loadPreset(name, logo)
LoadPreset(name, logo) ==
    LET r == loadPreset(name, logo, cache, MaxDepth) IN
    /\ cache' = r.cache
    /\ last' = [op |-> "load", name |-> name, logo |-> logo, result |-> r,
                again |-> <<name, logo>> \in DOMAIN returned,
                previous |-> IF <<name, logo>> \in DOMAIN returned
                             THEN returned[<<name, logo>>] ELSE <<>>]
    /\ returned' = IF r.status = "ok" THEN (<<name, logo>> :> r.value) @@ returned
                   ELSE returned
    /\ UNCHANGED <<files, installed>>

\* await presetManager.createPreset(name, config, location)
CreatePreset(name, config, location) ==
    /\ files' = (<<location, name>> :> Spread([name |-> name], config)) @@ files
    /\ cache' = clearCache(cache)
    /\ returned' = <<>>
    /\ last' = [op |-> "create", path |-> PresetPath(location, name)]
    /\ UNCHANGED installed

\* the parts of the state a specification does not exercise
IdlePreset ==
    /\ files = <<>> /\ installed = {} /\ cache = <<>> /\ returned = <<>>
    /\ last = NoResult

IdleMerge == mParent = <<>> /\ mChild = <<>> /\ mMerged = [done |-> FALSE]

IdleBuilder ==
    /\ args = <<>> /\ inputFile = "" /\ outputFile = "" /\ calls = <<>>
    /\ built = <<>> /\ proc = <<>> /\ execResult = <<>>

IdlePlugin ==
    /\ registryFile = [kind |-> "missing", drafts |-> <<>>]
    /\ docsDir = <<>> /\ clock = 0 /\ inv = <<>>

InitPreset ==
    /\ files = <<>>
    /\ installed = UserInstalled
    /\ cache = <<>>
    /\ returned = <<>>
    /\ last = NoResult
    /\ IdleMerge /\ IdleBuilder /\ IdlePlugin

NextPreset ==
    \/ \E i \in LoadInputs : LoadPreset(i[1], i[2]) /\ UNCHANGED <<mergeVars, builderVars, pluginVars>>
    \/ \E e \in CreateInputs : CreatePreset(e[1], e[2], e[3]) /\ UNCHANGED <<mergeVars, builderVars, pluginVars>>

SpecPreset == InitPreset /\ [][NextPreset]_vars

----------------------------------------------------------------------------
(* docs_templates_install *)

InstallSources == {"eisvogel", "ieee", "csl-ieee", "csl-apa", "csl-acm"}

\* how the downloads and subprocesses of one invocation end
InstallOutcomes(source) ==
    CASE source = "eisvogel" -> {"ok", "download_failed", "extract_failed", "copy_failed"}
      [] source = "ieee"     -> {"ok", "template_failed", "cls_failed"}
      [] OTHER               -> {"ok", "http_failed"}

UserDir == ScopeRoot("user")

\* the files the invocation has written when it ends with that outcome
InstallWrites(source, outcome) ==
    CASE source = "eisvogel" /\ outcome = "ok" ->
            { UserDir \o <<"templates", "eisvogel.latex">> }
      [] source = "ieee" /\ outcome = "ok" ->
            { UserDir \o <<"templates", "ieee", "template.latex">>,
              UserDir \o <<"templates", "ieee", "IEEEtran.cls">> }
      [] source = "ieee" /\ outcome = "cls_failed" ->
            { UserDir \o <<"templates", "ieee", "template.latex">> }
      [] source = "csl-ieee" /\ outcome = "ok" -> { UserDir \o <<"csl", "ieee.csl">> }
      [] source = "csl-apa" /\ outcome = "ok"  -> { UserDir \o <<"csl", "apa.csl">> }
      [] source = "csl-acm" /\ outcome = "ok"  ->
            { UserDir \o <<"csl", "acm-sig-proceedings.csl">> }
      [] OTHER -> {}

\* the invocation returns "Installed ..." (the exit code of cp is not looked at)
InstallReturns(source, outcome) == outcome \in {"ok", "copy_failed"}

Install(source, outcome) ==
    /\ installed' = installed \cup InstallWrites(source, outcome)
    /\ cache' = IF InstallReturns(source, outcome) THEN clearCache(cache) ELSE cache
    /\ returned' = IF InstallReturns(source, outcome) THEN <<>> ELSE returned
    /\ last' = [op |-> "install", source |-> source,
                status |-> IF InstallReturns(source, outcome) THEN "ok" ELSE "thrown",
                cachedBefore |-> Cardinality(DOMAIN cache)]
    /\ UNCHANGED files

InstallLoadInputs ==
    { <<"eisvogel", "">>, <<"ieee-journal", "">>, <<"acm-sigconf", "">>,
      <<"school-report", "sit">> }

InitInstall ==
    /\ files = <<>>
    /\ installed = {}
    /\ cache = <<>>
    /\ returned = <<>>
    /\ last = NoResult
    /\ IdleMerge /\ IdleBuilder /\ IdlePlugin

NextInstall ==
    \/ \E s \in InstallSources : \E o \in InstallOutcomes(s) :
          Install(s, o) /\ UNCHANGED <<mergeVars, builderVars, pluginVars>>
    \/ \E i \in InstallLoadInputs : LoadPreset(i[1], i[2]) /\ UNCHANGED <<mergeVars, builderVars, pluginVars>>

SpecInstall == InitInstall /\ [][NextInstall]_vars

----------------------------------------------------------------------------
(* Properties of the preset manager *)

LoadReturned == last.op = "load" /\ last.result.status = "ok"

\* the scope the precedence project > user > built-in selects for a name
PrecedenceScope(name) ==
    IF <<"project", name>> \in DOMAIN files THEN "project"
    ELSE IF <<"user", name>> \in DOMAIN files THEN "user"
    ELSE IF name \in DOMAIN BUILTIN_PRESETS THEN "builtin"
    ELSE "none"

\* C1: a preset that loadPreset resolves (not served from the cache) comes from
\* the project scope if the name is defined there, else from the user scope,
\* else from the built-in table, and source_type reports that scope.
C1_ScopePrecedence ==
    (LoadReturned /\ ~last.result.hit)
        => last.result.value.source_type = PrecedenceScope(last.name)

\* the definition loadPreset locates for a name
IsDefined(name) == name \in DOMAIN BUILTIN_PRESETS \/ resolvePreset(name).found

Located(name) ==
    IF name \in DOMAIN BUILTIN_PRESETS THEN BUILTIN_PRESETS[name]
    ELSE files[<<resolvePreset(name).source, name>>]

ParentName(name) ==
    IF Has(Located(name), "extends") THEN Located(name).extends ELSE ""

\* the extends chain of a name ends, within depth steps, in a defined preset
\* without a parent
RECURSIVE ChainDefined(_, _)
ChainDefined(name, depth) ==
    /\ IsDefined(name)
    /\ \/ ParentName(name) = ""
       \/ depth > 0 /\ ChainDefined(ParentName(name), depth - 1)

OwnExtraArgs(name) == Opt(Opt(Located(name), "pandoc"), "extra_args")

\* the extra_args lists along the extends chain, ancestors first
RECURSIVE ChainExtraArgs(_, _)
ChainExtraArgs(name, depth) ==
    IF ParentName(name) = "" \/ depth = 0 THEN OwnExtraArgs(name)
    ELSE ChainExtraArgs(ParentName(name), depth - 1) \o OwnExtraArgs(name)

\* C4: the extra_args of a resolved preset is the concatenation of the
\* extra_args lists along its extends chain, ancestors first and the requested
\* preset last.
C4_ExtraArgsChain ==
    (LoadReturned /\ ChainDefined(last.name, MaxDepth))
        => Opt(Opt(last.result.value, "pandoc"), "extra_args")
             = ChainExtraArgs(last.name, MaxDepth)

\* C5: loadPreset of a name that is neither built-in nor resolvable fails with
\* the error that names the preset and lists the available names, and returns
\* no preset.
C5_UnknownPresetFails ==
    (last.op = "load" /\ ~IsDefined(last.name))
        => /\ last.result.status = "not_found"
           /\ last.result.preset = last.name
           /\ last.result.available = listPresetNames

\* C6: a loadPreset call with a name and logo option that an earlier call
\* returned for, with no clearCache or createPreset in between, returns the
\* same resolved preset from the cache without consulting the resolver or the
\* file system.
C6_LoadCached ==
    (last.op = "load" /\ last.again)
        => /\ last.result.status = "ok"
           /\ last.result.value = last.previous
           /\ last.result.hit
           /\ last.result.consults = 0

C6_Witness ==
    /\ last.op = "load" /\ last.again
    /\ last.name = "c" /\ last.result.status = "ok"
    /\ Cardinality(DOMAIN cache) >= 3

\* C7: when docs_templates_install returns, for every source, the preset cache
\* is empty, and the loadPreset that follows is not served from the cache: it
\* consults the resolver against the files now installed.
C7_InstallClearsCache ==
    [][ /\ (last'.op = "install" /\ last'.status = "ok") => cache' = <<>>
        /\ (last.op = "install" /\ last.status = "ok" /\ last'.op = "load"
              /\ last'.result.status = "ok")
            => (~last'.result.hit /\ last'.result.consults > 0) ]_vars

C7_Witness ==
    /\ last.op = "install" /\ last.status = "ok" /\ last.cachedBefore >= 2
    /\ last.source = "csl-acm"
    /\ cache = <<>>

\* the reference of a preset to a file: preset[member][key], <<>> when absent
Reference(preset, member, key) ==
    IF Has(preset, member) /\ Has(preset[member], key) THEN preset[member][key] ELSE <<>>

\* the resolved path is there exactly when the reference resolves, and is its resolution
ResolutionOf(preset, resolvedKey, reference, resolution) ==
    /\ Has(preset, resolvedKey) <=> (reference # <<>> /\ resolution.found)
    /\ Has(preset, resolvedKey) => preset[resolvedKey] = resolution.path

\* C20: in every preset loadPreset returns, with or without a parent,
\* resolved_template_path is present exactly when the resolver resolves the
\* merged template.path, and is then that resolution; likewise
\* resolved_csl_path for the merged citation.csl_file.
C20_ResolvedPathsOwn ==
    LoadReturned =>
        LET r == last.result.value
            t == Reference(r, "template", "path")
            c == Reference(r, "citation", "csl_file")
        IN  /\ ResolutionOf(r, "resolved_template_path", t,
                            IF t # <<>> THEN resolveTemplate(t) ELSE NotResolved)
            /\ ResolutionOf(r, "resolved_csl_path", c,
                            IF c # <<>> THEN resolveCsl(c) ELSE NotResolved)

----------------------------------------------------------------------------
(* mergePresets applied to a parent and a child drawn from bounded sets *)

\* a member that is either not declared or one of the given values
Maybe(k, values) == {EmptyObj} \cup {(k :> v) : v \in values}

MergeChildren ==
    { Spread([name |-> "child", extends |-> "parent"],
        Spread(t, Spread(c, Spread(p, Spread(l, Spread(s, Spread(e, r))))))) :
        t \in Maybe("template", { [path |-> <<"t", "child.latex">>],
                                  [path |-> <<"t", "child.latex">>,
                                   class_options |-> <<"twocolumn">>] }),
        c \in Maybe("citation", { [csl_file |-> <<"child.csl">>] }),
        p \in Maybe("pandoc", { EmptyObj,
                                [from |-> "gfm"],
                                [variables |-> [fontsize |-> "12pt", mainfont |-> "serif"]],
                                [variables |-> [linkcolor |-> "red"],
                                 extra_args |-> <<"--c1">>] }),
        l \in Maybe("logos", { EmptyObj, [sit |-> <<"child", "sit.png">>] }),
        s \in Maybe("style", { [toc |-> FALSE, titlepage_color |-> "ffffff"] }),
        e \in Maybe("pdf_engine", { "lualatex" }),
        r \in Maybe("required_fields", { <<>> }) }

\* ResolvedPreset objects, as loadPreset passes them to mergePresets
MergeParents ==
    { Spread(Spread([name |-> "a"], CfgA),
             [ source_path |-> PresetPath("user", "a"), source_type |-> "user",
               resolved_template_path |-> UserDir \o <<"templates", "t", "a.latex">> ]),
      Spread(IeeeConference, [source_path |-> <<"builtin">>, source_type |-> "builtin"]),
      Spread(SchoolReport, [source_path |-> <<"builtin">>, source_type |-> "builtin"]),
      [ name |-> "bare", source_path |-> PresetPath("project", "bare"),
        source_type |-> "project" ],
      [ name |-> "flat", pandoc |-> [from |-> "markdown"], pdf_engine |-> "xelatex",
        optional_fields |-> <<"date">>,
        source_path |-> PresetPath("user", "flat"), source_type |-> "user" ] }

Merge ==
    /\ ~mMerged.done
    /\ mMerged' = [done |-> TRUE, value |-> mergePresets(mParent, mChild)]
    /\ UNCHANGED <<mParent, mChild>>

InitMerge ==
    /\ mParent \in MergeParents
    /\ mChild \in MergeChildren
    /\ mMerged = [done |-> FALSE]
    /\ IdlePreset /\ IdleBuilder /\ IdlePlugin

NextMerge == Merge /\ UNCHANGED <<presetVars, builderVars, pluginVars>>

SpecMerge == InitMerge /\ [][NextMerge]_vars

\* the members mergePresets spreads key by key
SpreadMembers == {"template", "citation", "logos", "style"}

\* the merge of one map member: the child's keys win, the parent's others stay
KeyByKey(merged, parent, child) ==
    /\ DOMAIN merged = (DOMAIN parent) \cup (DOMAIN child)
    /\ \A k \in DOMAIN merged :
          merged[k] = IF k \in DOMAIN child THEN child[k] ELSE parent[k]

\* C2 as claimed: every member the child declares, other than pandoc, logos
\* and style, is exactly the child's value (template and citation included),
\* and every member the child does not declare is the parent's.
C2_ChildFieldsReplace ==
    mMerged.done =>
        /\ \A k \in (DOMAIN mChild) \ {"pandoc", "logos", "style"} :
              mMerged.value[k] = mChild[k]
        /\ \A k \in (DOMAIN mParent) \ (DOMAIN mChild) :
              mMerged.value[k] = mParent[k]

\* C2 amended: every member the child declares other than template, citation,
\* pandoc, logos and style is exactly the child's value, pandoc.from included;
\* template and citation are merged key by key (the child's keys win and the
\* parent's other keys are kept); every member the child does not declare is
\* the parent's.
C2_ChildFieldsWin ==
    mMerged.done =>
        /\ DOMAIN mMerged.value = (DOMAIN mParent) \cup (DOMAIN mChild)
        /\ \A k \in (DOMAIN mChild) \ (SpreadMembers \cup {"pandoc"}) :
              mMerged.value[k] = mChild[k]
        /\ \A k \in (DOMAIN mParent) \ (DOMAIN mChild) :
              mMerged.value[k] = mParent[k]
        /\ \A m \in {"template", "citation"} :
              Has(mChild, m) => KeyByKey(mMerged.value[m], Opt(mParent, m), mChild[m])
        /\ Has(mChild, "pandoc") =>
              \/ ~Has(mChild.pandoc, "from") /\ ~Has(Opt(mParent, "pandoc"), "from")
                   /\ ~Has(mMerged.value.pandoc, "from")
              \/ Has(mMerged.value.pandoc, "from")
                   /\ mMerged.value.pandoc.from =
                        IF Has(mChild.pandoc, "from") THEN mChild.pandoc.from
                        ELSE mParent.pandoc.from

C2_Witness ==
    /\ mMerged.done
    /\ Has(mChild, "template") /\ ~Has(mChild.template, "class_options")
    /\ Has(mParent, "template") /\ Has(mParent.template, "class_options")
    /\ mMerged.value.template.class_options = mParent.template.class_options
    /\ mMerged.value.template.path = mChild.template.path
    /\ Has(mChild, "pdf_engine") /\ mMerged.value.pdf_engine = "lualatex"

\* C3: pandoc.variables, logos and style are merged key by key: a key the
\* child defines has the child's value, any other key the parent's, and no
\* parent key is lost, whether or not the child declares the pandoc section.
C3_NestedMapsKeyByKey ==
    mMerged.done =>
        /\ KeyByKey(Opt(Opt(mMerged.value, "pandoc"), "variables"),
                    Opt(Opt(mParent, "pandoc"), "variables"),
                    Opt(Opt(mChild, "pandoc"), "variables"))
        /\ \A m \in {"logos", "style"} :
              KeyByKey(Opt(mMerged.value, m), Opt(mParent, m), Opt(mChild, m))

C3_Witness ==
    /\ mMerged.done
    /\ Has(mChild, "pandoc") /\ Has(mChild.pandoc, "variables")
    /\ Has(mChild.pandoc.variables, "fontsize")
    /\ mParent.name = "a"
    /\ mMerged.value.pandoc.variables.fontsize = "12pt"
    /\ mMerged.value.pandoc.variables.geometry = "a4paper"
    /\ Has(mChild, "logos") /\ mChild.logos = EmptyObj
    /\ DOMAIN mMerged.value.logos = {"b:", "sit"}
    /\ Has(mChild, "style") /\ mMerged.value.style.toc = FALSE
    /\ mMerged.value.style.linkcolor = "blue"

----------------------------------------------------------------------------
(* PandocBuilder.  An argument is the sequence of the pieces its template    *)
(* literal is made of, so `--template=${path}` is <<"--template=">> \o path. *)

NewArgs == << <<"pandoc">> >>

from(a, format) == a \o << <<"-f">>, <<format>> >>

to(a, format) == a \o << <<"-t">>, <<format>> >>

template(a, path) == Append(a, <<"--template=">> \o path)

pdfEngine(a, engine) == Append(a, <<"--pdf-engine=", engine>>)

\* the value is given as the pieces of its text
variable(a, name, value) == a \o << <<"-V">>, <<name, "=">> \o value >>

\* Object.entries(vars) in some fixed order of the keys
RECURSIVE KeySeq(_)
KeySeq(keys) ==
    IF keys = {} THEN <<>>
    ELSE LET k == CHOOSE x \in keys : TRUE IN <<k>> \o KeySeq(keys \ {k})

RECURSIVE variablesFrom(_, _, _)
variablesFrom(a, vs, names) ==
    IF names = <<>> THEN a
    ELSE variablesFrom(variable(a, Head(names), <<vs[Head(names)]>>), vs, Tail(names))

variables(a, vs) == variablesFrom(a, vs, KeySeq(DOMAIN vs))

bibliography(a, path) == a \o << <<"--bibliography=", path>>, <<"--citeproc">> >>

csl(a, path) == Append(a, <<"--csl=">> \o path)

toc(a) == Append(a, <<"--toc">>)

numberSections(a) == Append(a, <<"--number-sections">>)

listings(a) == Append(a, <<"--listings">>)

standalone(a) == Append(a, <<"-s">>)

metadata(a, key, value) == a \o << <<"-M">>, <<key, "=", value>> >>

metadataFile(a, path) == Append(a, <<"--metadata-file=", path>>)

arg(a, x) == Append(a, <<x>>)

rawArgs(a, xs) == a \o [i \in 1..Len(xs) |-> <<xs[i]>>]

resourcePath(a, path) == Append(a, <<"--resource-path=">> \o path)

\* path.split("/").slice(0, -1), and whether its join("/") is the empty string
DirOf(path) == SubSeq(path, 1, Len(path) - 1)

JoinsEmpty(segments) == segments = <<>> \/ segments = <<"">>

\* the style block of applyPreset
applyStyle(a, style) ==
    LET a1 == IF Has(style, "titlepage")
              THEN variable(a, "titlepage", <<BoolStr(style.titlepage)>>) ELSE a
        a2 == IF Has(style, "titlepage_color") /\ style.titlepage_color # ""
              THEN variable(a1, "titlepage-color", <<style.titlepage_color>>) ELSE a1
        a3 == IF Has(style, "text_color") /\ style.text_color # ""
              THEN variable(variable(a2, "titlepage-text-color", <<style.text_color>>),
                            "titlepage-rule-color", <<style.text_color>>)
              ELSE a2
        a4 == IF Has(style, "toc") /\ style.toc THEN toc(a3) ELSE a3
        a5 == IF Has(style, "toc_own_page") /\ style.toc_own_page
              THEN variable(a4, "toc-own-page", <<"true">>) ELSE a4
        a6 == IF Has(style, "number_sections") /\ style.number_sections
              THEN numberSections(a5) ELSE a5
        a7 == IF Has(style, "colorlinks")
              THEN variable(a6, "colorlinks", <<BoolStr(style.colorlinks)>>) ELSE a6
    IN  IF Has(style, "linkcolor") /\ style.linkcolor # ""
        THEN variable(a7, "linkcolor", <<style.linkcolor>>) ELSE a7

\* an applyPreset that puts the logo before the extra arguments
applyPresetLogoFirst(a, preset) ==
    LET pd == Opt(preset, "pandoc")
        a1 == IF Has(pd, "from") /\ pd.from # "" THEN from(a, pd.from) ELSE a
        a2 == IF Has(preset, "resolved_template_path")
                 /\ ~JoinsEmpty(preset.resolved_template_path)
              THEN LET t == template(a1, preset.resolved_template_path)
                       templateDir == DirOf(preset.resolved_template_path)
                   IN  IF ~JoinsEmpty(templateDir) THEN resourcePath(t, templateDir)
                       ELSE t
              ELSE a1
        a3 == IF Has(preset, "pdf_engine") /\ preset.pdf_engine # ""
              THEN pdfEngine(a2, preset.pdf_engine) ELSE a2
        a4 == IF Has(preset, "resolved_csl_path")
                 /\ ~JoinsEmpty(preset.resolved_csl_path)
              THEN csl(a3, preset.resolved_csl_path) ELSE a3
        a5 == IF Has(preset, "style") THEN applyStyle(a4, preset.style) ELSE a4
        a6 == IF Has(pd, "variables") THEN variables(a5, pd.variables) ELSE a5
        a7 == IF Has(preset, "resolved_logo_path") /\ ~JoinsEmpty(preset.resolved_logo_path)
              THEN variable(variable(a6, "logo", preset.resolved_logo_path),
                            "logo-width", <<"150">>)
              ELSE a6
    IN  IF Has(pd, "extra_args") THEN rawArgs(a7, pd.extra_args) ELSE a7

applyPreset(a, preset) ==
    LET pd == Opt(preset, "pandoc")
        a1 == IF Has(pd, "from") /\ pd.from # "" THEN from(a, pd.from) ELSE a
        a2 == IF Has(preset, "resolved_template_path")
                 /\ ~JoinsEmpty(preset.resolved_template_path)
              THEN LET t == template(a1, preset.resolved_template_path)
                       templateDir == DirOf(preset.resolved_template_path)
                   IN  IF ~JoinsEmpty(templateDir) THEN resourcePath(t, templateDir)
                       ELSE t
              ELSE a1
        a3 == IF Has(preset, "pdf_engine") /\ preset.pdf_engine # ""
              THEN pdfEngine(a2, preset.pdf_engine) ELSE a2
        a4 == IF Has(preset, "resolved_csl_path")
                 /\ ~JoinsEmpty(preset.resolved_csl_path)
              THEN csl(a3, preset.resolved_csl_path) ELSE a3
        a5 == IF Has(preset, "style") THEN applyStyle(a4, preset.style) ELSE a4
        a6 == IF Has(pd, "variables") THEN variables(a5, pd.variables) ELSE a5
        a7 == IF Has(pd, "extra_args") THEN rawArgs(a6, pd.extra_args) ELSE a6
    IN  IF Has(preset, "resolved_logo_path") /\ ~JoinsEmpty(preset.resolved_logo_path)
        THEN variable(variable(a7, "logo", preset.resolved_logo_path),
                      "logo-width", <<"150">>)
        ELSE a7


\* applyMetadata: one variable per non-empty field, keywords last
MetadataFields == <<"title", "author", "date", "subtitle", "abstract", "subject",
                    "course_code">>

RECURSIVE applyFields(_, _, _)
applyFields(a, md, fields) ==
    IF fields = <<>> THEN a
    ELSE LET f == Head(fields)
             a1 == IF Has(md, f) /\ md[f] # "" THEN variable(a, f, <<md[f]>>) ELSE a
         IN  applyFields(a1, md, Tail(fields))

\* Array.prototype.join(", ") over the pieces of the keywords
RECURSIVE JoinComma(_)
JoinComma(xs) ==
    IF xs = <<>> THEN <<"">>
    ELSE IF Len(xs) = 1 THEN <<xs[1]>>
    ELSE <<xs[1], ", ">> \o JoinComma(Tail(xs))

\* md.keywords is [array |-> TRUE, items |-> <<..>>] or [array |-> FALSE, text |-> ".."]
applyMetadata(a, md) ==
    LET a1 == applyFields(a, md, MetadataFields)
    IN  IF ~Has(md, "keywords") THEN a1
        ELSE IF md.keywords.array
             THEN variable(a1, "keywords", JoinComma(md.keywords.items))
             ELSE IF md.keywords.text # ""
                  THEN variable(a1, "keywords", <<md.keywords.text>>)
                  ELSE a1

\* a build that puts the input path in front of the flags
buildInputFirst(a, inFile, outFile) ==
    LET cmd1 == IF inFile # "" THEN <<a[1], <<inFile>>>> \o Tail(a) ELSE a
    IN  IF outFile # "" THEN cmd1 \o << <<"-o">>, <<outFile>> >> ELSE cmd1

build(a, inFile, outFile) ==
    LET cmd1 == IF inFile # "" THEN Append(a, <<inFile>>) ELSE a
    IN  IF outFile # "" THEN cmd1 \o << <<"-o">>, <<outFile>> >> ELSE cmd1

\* A text is the sequence of its lines (what split("\n") returns, and what
\* join("\n") is given); a line is a number, 0 the empty line, so the empty
\* string is <<0>>.
EmptyText == <<0>>

TailLines == 30

\* the first 30 lines instead of the last
firstLines(lines) ==
    IF Len(lines) <= TailLines THEN lines ELSE SubSeq(lines, 1, TailLines)

\* lines.slice(-30)
lastLines(lines) ==
    IF Len(lines) <= TailLines THEN lines
    ELSE SubSeq(lines, Len(lines) - TailLines + 1, Len(lines))

\* what execute() returns for a finished subprocess; exitCode -1 stands for
\* null (the process was ended by a signal)
execute(p) ==
    IF p.exitCode # 0
    THEN [success |-> FALSE,
          error |-> IF p.stderr # EmptyText THEN p.stderr ELSE lastLines(p.stdout)]
    ELSE [success |-> TRUE, output |-> p.stdout]


----------------------------------------------------------------------------
(* The builder as a state machine: one action per method.                   *)

\* cap on the length of the argument list at which configuration stops
MaxArgs == 3

\* a configuration call appended its flags to args
Configured(method, newArgs) ==
    /\ args' = newArgs
    /\ calls' = Append(calls, [method |-> method])
    /\ UNCHANGED <<inputFile, outputFile, built, proc, execResult>>

Input(path) ==
    /\ inputFile' = path
    /\ UNCHANGED <<args, outputFile, calls, built, proc, execResult>>

Output(path) ==
    /\ outputFile' = path
    /\ UNCHANGED <<args, inputFile, calls, built, proc, execResult>>

From(format) == Configured("from", from(args, format))

To(format) == Configured("to", to(args, format))

Template(path) == Configured("template", template(args, path))

PdfEngine(engine) == Configured("pdfEngine", pdfEngine(args, engine))

Variable(name, value) == Configured("variable", variable(args, name, <<value>>))

Variables(vs) == Configured("variables", variables(args, vs))

Bibliography(path) == Configured("bibliography", bibliography(args, path))

Csl(path) == Configured("csl", csl(args, path))

Toc == Configured("toc", toc(args))

NumberSections == Configured("numberSections", numberSections(args))

Listings == Configured("listings", listings(args))

Standalone == Configured("standalone", standalone(args))

Metadata(key, value) == Configured("metadata", metadata(args, key, value))

MetadataFile(path) == Configured("metadataFile", metadataFile(args, path))

Arg(x) == Configured("arg", arg(args, x))

RawArgs(xs) == Configured("rawArgs", rawArgs(args, xs))

ResourcePath(path) == Configured("resourcePath", resourcePath(args, path))

ApplyPreset(preset) ==
    /\ args' = applyPreset(args, preset)
    /\ calls' = Append(calls, [method |-> "applyPreset", preset |-> preset])
    /\ UNCHANGED <<inputFile, outputFile, built, proc, execResult>>

ApplyMetadata(md) == Configured("applyMetadata", applyMetadata(args, md))

Build ==
    /\ built' = build(args, inputFile, outputFile)
    /\ UNCHANGED <<args, inputFile, outputFile, calls, proc, execResult>>

\* execute(): the subprocess either cannot be started (Bun.spawn throws) or
\* finishes with an exit code and its two output streams
Execute(started, exitCode, stdout, stderr) ==
    /\ proc' = IF started
               THEN [cmd |-> build(args, inputFile, outputFile), started |-> TRUE,
                     exitCode |-> exitCode, stdout |-> stdout, stderr |-> stderr]
               ELSE [cmd |-> build(args, inputFile, outputFile), started |-> FALSE]
    /\ execResult' = IF started THEN [thrown |-> FALSE, value |-> execute(proc')]
                     ELSE [thrown |-> TRUE]
    /\ UNCHANGED <<args, inputFile, outputFile, calls, built>>

TemplateFile == <<"", "u", "templates", "ieee", "template.latex">>

CslFile == <<"", "u", "csl", "ieee.csl">>

LogoFile == <<"", "u", "assets", "sit.png">>

\* two resolved presets the builder is configured from
BuilderPresets ==
    { [name |-> "full", pdf_engine |-> "xelatex",
       pandoc |-> [from |-> "markdown", variables |-> [fontsize |-> "11pt"],
                   extra_args |-> <<"--listings">>],
       style |-> [titlepage |-> TRUE, toc |-> TRUE],
       resolved_template_path |-> TemplateFile,
       resolved_csl_path |-> CslFile,
       resolved_logo_path |-> LogoFile],
      [name |-> "bare", pdf_engine |-> "pdflatex"] }

BuilderMetadata ==
    { [title |-> "T", author |-> "", keywords |-> [array |-> TRUE, items |-> <<"k1", "k2">>]],
      [date |-> "2024", keywords |-> [array |-> FALSE, text |-> "k"]] }

InitBuilder ==
    /\ IdlePreset /\ IdleMerge /\ IdlePlugin
    /\ args = NewArgs /\ inputFile = "" /\ outputFile = "" /\ calls = <<>>
    /\ built = <<>> /\ proc = <<>> /\ execResult = <<>>

ConfigureBuilder ==
    \/ From("markdown")
    \/ To("latex")
    \/ Template(TemplateFile)
    \/ PdfEngine("xelatex")
    \/ Variable("geometry", "margin=1in")
    \/ Variables([fontsize |-> "12pt", lang |-> "en"])
    \/ Bibliography("refs.bib")
    \/ Csl(CslFile)
    \/ Toc
    \/ NumberSections
    \/ Listings
    \/ Standalone
    \/ Metadata("title", "T")
    \/ MetadataFile("meta.yaml")
    \/ Arg("--wrap=none")
    \/ RawArgs(<<"--shift-heading-level-by=1", "--verbose">>)
    \/ ResourcePath(<<"", "u", "templates", "ieee">>)
    \/ \E p \in BuilderPresets : ApplyPreset(p)
    \/ \E md \in BuilderMetadata : ApplyMetadata(md)

NextBuilder ==
    /\ \/ Len(args) < MaxArgs /\ ConfigureBuilder
       \/ \E path \in {"", "in.md"} : Input(path)
       \/ \E path \in {"", "out.pdf"} : Output(path)
       \/ Build
    /\ UNCHANGED <<presetVars, mergeVars, pluginVars>>

SpecBuilder == InitBuilder /\ [][NextBuilder]_vars


----------------------------------------------------------------------------
(* applyPreset on its own: one application to every preset of a catalogue   *)
(* in which each part is present, absent, or present but empty.             *)

ApplyStyles ==
    { EmptyObj,
      [titlepage |-> FALSE, toc |-> TRUE, colorlinks |-> TRUE],
      [titlepage_color |-> "1E3A5F", text_color |-> "FFFFFF", toc |-> FALSE,
       toc_own_page |-> TRUE, number_sections |-> TRUE, linkcolor |-> "blue"] }

ApplyPandocs ==
    { Spread(f, Spread(v, x)) :
        f \in Maybe("from", {"markdown", ""}),
        v \in Maybe("variables", { [geometry |-> "margin=1in", colorlinks |-> "true"] }),
        x \in Maybe("extra_args", { <<>>, <<"--listings", "--wrap=none">> }) }

ApplyPresets ==
    { Spread([name |-> "p"], Spread(pd, Spread(t, Spread(e, Spread(c, Spread(s, l)))))) :
        pd \in Maybe("pandoc", ApplyPandocs),
        t \in Maybe("resolved_template_path",
                    { TemplateFile, <<"template.latex">>, <<"", "template.latex">> }),
        e \in Maybe("pdf_engine", {"xelatex"}),
        c \in Maybe("resolved_csl_path", {CslFile}),
        s \in Maybe("style", ApplyStyles),
        l \in Maybe("resolved_logo_path", {LogoFile}) }

InitApply ==
    /\ IdlePreset /\ IdleMerge /\ IdlePlugin
    /\ \/ args = NewArgs /\ calls = <<>>
       \/ args = standalone(NewArgs) /\ calls = << [method |-> "standalone"] >>
    /\ inputFile = "" /\ outputFile = ""
    /\ built = <<>> /\ proc = <<>> /\ execResult = <<>>

NextApply ==
    /\ \A i \in 1..Len(calls) : calls[i].method # "applyPreset"
    /\ \E p \in ApplyPresets : ApplyPreset(p)
    /\ UNCHANGED <<presetVars, mergeVars, pluginVars>>

SpecApply == InitApply /\ [][NextApply]_vars

\* the item (a flag with the value that follows it) starting at position i of
\* an argument list: the part of applyPreset it belongs to, and its length
StyleVariables == {"titlepage", "titlepage-color", "titlepage-text-color",
                   "titlepage-rule-color", "toc-own-page", "colorlinks", "linkcolor"}

\* the parts of applyPreset, in the order the claim gives them
PartOrder == <<"from", "template", "resourcePath", "pdfEngine", "csl", "style",
               "variables", "extraArgs", "logo">>

PartRank(part) == CHOOSE i \in 1..Len(PartOrder) : PartOrder[i] = part

ItemAt(a, i) ==
    LET x == a[i] IN
    IF x = <<"-f">> THEN [part |-> "from", len |-> 2]
    ELSE IF x[1] = "--template=" THEN [part |-> "template", len |-> 1]
    ELSE IF x[1] = "--resource-path=" THEN [part |-> "resourcePath", len |-> 1]
    ELSE IF x[1] = "--pdf-engine=" THEN [part |-> "pdfEngine", len |-> 1]
    ELSE IF x[1] = "--csl=" THEN [part |-> "csl", len |-> 1]
    ELSE IF x \in { <<"--toc">>, <<"--number-sections">> }
         THEN [part |-> "style", len |-> 1]
    ELSE IF x = <<"-V">>
         THEN [part |-> IF a[i + 1][1] \in {"logo", "logo-width"} THEN "logo"
                        ELSE IF a[i + 1][1] \in StyleVariables THEN "style"
                        ELSE "variables",
               len |-> 2]
    ELSE [part |-> "extraArgs", len |-> 1]

RECURSIVE PartsFrom(_, _)
PartsFrom(a, i) ==
    IF i > Len(a) THEN <<>>
    ELSE LET it == ItemAt(a, i) IN <<it.part>> \o PartsFrom(a, i + it.len)

CountPart(parts, set) == Cardinality({ i \in 1..Len(parts) : parts[i] \in set })

\* the path has a directory in front of its last segment
HasDirectory(path) == Len(path) > 2 \/ (Len(path) = 2 /\ path[1] # "")

TruthyPath(o, k) == Has(o, k) /\ o[k] # <<>> /\ o[k] # <<"">>

\* how many items the style block and the pandoc variables contribute
StyleItems(style) ==
    (IF Has(style, "titlepage") THEN 1 ELSE 0)
    + (IF Has(style, "titlepage_color") /\ style.titlepage_color # "" THEN 1 ELSE 0)
    + (IF Has(style, "text_color") /\ style.text_color # "" THEN 2 ELSE 0)
    + (IF Has(style, "toc") /\ style.toc THEN 1 ELSE 0)
    + (IF Has(style, "toc_own_page") /\ style.toc_own_page THEN 1 ELSE 0)
    + (IF Has(style, "number_sections") /\ style.number_sections THEN 1 ELSE 0)
    + (IF Has(style, "colorlinks") THEN 1 ELSE 0)
    + (IF Has(style, "linkcolor") /\ style.linkcolor # "" THEN 1 ELSE 0)

AppliedInOrder(before, after, preset) ==
    LET appended == SubSeq(after, Len(before) + 1, Len(after))
        parts == PartsFrom(appended, 1)
        pd == Opt(preset, "pandoc")
        hasTemplate == TruthyPath(preset, "resolved_template_path")
    IN  /\ Len(after) >= Len(before)
        /\ SubSeq(after, 1, Len(before)) = before
        /\ \A i \in 1..Len(parts) - 1 : PartRank(parts[i]) <= PartRank(parts[i + 1])
        /\ CountPart(parts, {"from"}) = IF Has(pd, "from") /\ pd.from # "" THEN 1 ELSE 0
        /\ CountPart(parts, {"template"}) = IF hasTemplate THEN 1 ELSE 0
        /\ CountPart(parts, {"resourcePath"}) =
              IF hasTemplate /\ HasDirectory(preset.resolved_template_path)
              THEN 1 ELSE 0
        /\ CountPart(parts, {"pdfEngine"}) = IF Has(preset, "pdf_engine") THEN 1 ELSE 0
        /\ CountPart(parts, {"csl"}) = IF TruthyPath(preset, "resolved_csl_path") THEN 1 ELSE 0
        /\ CountPart(parts, {"style", "variables"}) =
              StyleItems(Opt(preset, "style")) + Cardinality(DOMAIN Opt(pd, "variables"))
        /\ CountPart(parts, {"extraArgs"}) = Len(Opt(pd, "extra_args"))
        /\ CountPart(parts, {"logo"}) = IF TruthyPath(preset, "resolved_logo_path") THEN 2 ELSE 0

\* C8: applyPreset appends its arguments in one fixed order - input format,
\* template and resource path, PDF engine, CSL, style settings, pandoc
\* variables, extra raw arguments, logo - leaving out exactly the parts the
\* preset does not have, and leaves the arguments already there untouched.
C8_ApplyPresetOrder ==
    [][ (calls' # calls /\ calls'[Len(calls')].method = "applyPreset")
        => AppliedInOrder(args, args', calls'[Len(calls')].preset) ]_vars

\* every part, the extra arguments included, was appended by one applyPreset
C8_Witness ==
    /\ calls # <<>> /\ calls[Len(calls)].method = "applyPreset"
    /\ LET parts == PartsFrom(args, 1) IN
         \A r \in { PartOrder[k] : k \in 1..Len(PartOrder) } :
            \E i \in 1..Len(parts) : parts[i] = r
    /\ \E i \in 1..Len(args) : args[i] = <<"--listings">>


----------------------------------------------------------------------------
(* build() *)

BuildOf(a, inFile, outFile, cmd) ==
    LET n == Len(a)
        m == Len(cmd)
    IN  /\ m = n + (IF inFile # "" THEN 1 ELSE 0) + (IF outFile # "" THEN 2 ELSE 0)
        /\ cmd[1] = <<"pandoc">>
        /\ \A i \in 1..n : cmd[i] = a[i]
        /\ inFile # "" => cmd[n + 1] = <<inFile>>
        /\ outFile # "" => cmd[m - 1] = <<"-o">> /\ cmd[m] = <<outFile>>

\* C9: build() returns "pandoc", then every flag in the order its
\* configuration call was made (a call only ever appends to the flags already
\* there, and input()/output() add none), then the input path if one is set,
\* then "-o" and the output path if one is set; build() changes nothing in the
\* builder, so building again gives the same list.
C9_BuildOrder ==
    [][ /\ Len(args') >= Len(args) /\ SubSeq(args', 1, Len(args)) = args
        /\ (inputFile' # inputFile \/ outputFile' # outputFile) => args' = args
        /\ built' # built =>
              /\ UNCHANGED <<args, inputFile, outputFile>>
              /\ BuildOf(args, inputFile, outputFile, built')
              /\ build(args', inputFile', outputFile') = built' ]_vars

\* a build of two flags made around input() and output(), both paths set
C9_Witness ==
    /\ Len(calls) >= 2 /\ inputFile # "" /\ outputFile # ""
    /\ built # <<>> /\ BuildOf(args, inputFile, outputFile, built)

----------------------------------------------------------------------------
(* execute() *)

\* most lines the subprocess writes to its standard output
MaxStdoutLines == 32

StdoutTexts == {EmptyText} \cup { [i \in 1..n |-> i] : n \in 1..MaxStdoutLines }

StderrTexts == { EmptyText, <<901>>, <<901, 902>> }

ExitCodes == {0, 1, 2, -1}

InitExec ==
    /\ IdlePreset /\ IdleMerge /\ IdlePlugin
    /\ \/ args = NewArgs /\ calls = <<>>
       \/ args = from(NewArgs, "markdown") /\ calls = << [method |-> "from"] >>
    /\ inputFile = "in.md" /\ outputFile = "out.pdf"
    /\ built = <<>> /\ proc = <<>> /\ execResult = <<>>

NextExec ==
    /\ \/ \E code \in ExitCodes, out \in StdoutTexts, err \in StderrTexts :
             Execute(TRUE, code, out, err)
       \/ Execute(FALSE, 0, EmptyText, EmptyText)
    /\ UNCHANGED <<presetVars, mergeVars, pluginVars>>

SpecExec == InitExec /\ [][NextExec]_vars

Executed == execResult # <<>> /\ ~execResult.thrown

\* C10: when the subprocess has run, execute() reports success exactly when
\* the exit code is 0, and then output is the standard output; otherwise the
\* error is the standard error if that is not empty, and else the last 30
\* lines of the standard output (all of them when there are fewer).
C10_ExecuteResult ==
    Executed =>
        LET r == execResult.value
            n == Len(proc.stdout)
        IN  /\ r.success = (proc.exitCode = 0)
            /\ r.success => DOMAIN r = {"success", "output"} /\ r.output = proc.stdout
            /\ ~r.success =>
                  /\ DOMAIN r = {"success", "error"}
                  /\ proc.stderr # EmptyText => r.error = proc.stderr
                  /\ proc.stderr = EmptyText =>
                        /\ Len(r.error) = IF n < TailLines THEN n ELSE TailLines
                        /\ \A i \in 1..Len(r.error) :
                              r.error[i] = proc.stdout[n - Len(r.error) + i]

\* a failed run with nothing on standard error and more than 30 lines of output
C10_Witness ==
    /\ Executed /\ ~execResult.value.success
    /\ proc.stderr = EmptyText /\ Len(proc.stdout) > TailLines
    /\ Len(execResult.value.error) = TailLines


----------------------------------------------------------------------------
(* The docs plugin: document ids.  An id is the sequence of its characters. *)

Lower == {"a", "b", "c", "d", "e", "f", "g", "h", "i", "j", "k", "l", "m",
          "n", "o", "p", "q", "r", "s", "t", "u", "v", "w", "x", "y", "z"}

Digit == {"0", "1", "2", "3", "4", "5", "6", "7", "8", "9"}

\* String(n) for a number n >= 0
RECURSIVE DigitsOf(_)
DigitsOf(n) ==
    LET d == <<"0", "1", "2", "3", "4", "5", "6", "7", "8", "9">>[(n % 10) + 1]
    IN  IF n < 10 THEN <<d>> ELSE DigitsOf(n \div 10) \o <<d>>

\* the words and numbers generateDocId draws from (some of the source's lists)
ADJECTIVES == { <<"j", "a", "d", "e">> }

NOUNS == { <<"s", "e", "a">> }

DocNumbers == { 482 }

\* an id whose parts are joined by "_"
DocIdUnderscored(adj, noun, num) ==
    adj \o <<"_">> \o noun \o <<"_">> \o DigitsOf(num)

\* `${adj}-${noun}-${num}`
DocId(adj, noun, num) == adj \o <<"-">> \o noun \o <<"-">> \o DigitsOf(num)

\* the ids of the words and numbers above, for every value Math.random() can give
generateDocId ==
    { DocId(adj, noun, num) : adj \in ADJECTIVES, noun \in NOUNS, num \in DocNumbers }

\* the pieces of a string between its "-" characters
RECURSIVE SplitDash(_)
SplitDash(str) ==
    IF \A i \in 1..Len(str) : str[i] # "-" THEN <<str>>
    ELSE LET i == CHOOSE k \in 1..Len(str) :
                     str[k] = "-" /\ \A j \in 1..(k - 1) : str[j] # "-"
         IN  <<SubSeq(str, 1, i - 1)>> \o SplitDash(SubSeq(str, i + 1, Len(str)))

AllIn(str, class) == str # <<>> /\ \A i \in 1..Len(str) : str[i] \in class

\* the test without its anchors: /[a-z]+-[a-z]+-\d+(-\d+)?/.test(docId)
isValidDocIdUnanchored(docId) ==
    \E i \in 1..Len(docId), j \in 1..Len(docId) :
        LET parts == SplitDash(SubSeq(docId, i, j)) IN
        /\ Len(parts) \in {3, 4}
        /\ AllIn(parts[1], Lower) /\ AllIn(parts[2], Lower)
        /\ AllIn(parts[3], Digit)
        /\ Len(parts) = 4 => AllIn(parts[4], Digit)

\* /^[a-z]+-[a-z]+-\d+(-\d+)?$/.test(docId)
isValidDocId(docId) ==
    LET parts == SplitDash(docId) IN
    /\ Len(parts) \in {3, 4}
    /\ AllIn(parts[1], Lower) /\ AllIn(parts[2], Lower)
    /\ AllIn(parts[3], Digit)
    /\ Len(parts) = 4 => AllIn(parts[4], Digit)

----------------------------------------------------------------------------
(* The registry file.  kind says how the file parses: "missing" (no file),   *)
(* "unparseable" (JSON.parse throws), "null" (the JSON text null),            *)
(* "no_drafts" (a JSON object without a drafts member), "ok" (a registry).    *)

EmptyRegistry == [kind |-> "ok", drafts |-> <<>>]

readRegistry(file) ==
    IF file.kind \in {"missing", "unparseable"} THEN EmptyRegistry ELSE file

\* registry.drafts[...] can be evaluated (it throws a TypeError otherwise)
HasDrafts(registry) == registry.kind = "ok"

\* writeFileSync(path, JSON.stringify(registry, null, 2))
writeRegistry(registry) == registry

\* registry.drafts[docId] = entry
SetDraft(registry, docId, entry) ==
    [registry EXCEPT !.drafts = (docId :> entry) @@ registry.drafts]

\* a delete that leaves the entry in place
DeleteDraftKept(registry, docId) == registry

\* a delete that empties the registry
DeleteDraftAll(registry, docId) == [registry EXCEPT !.drafts = <<>>]

\* delete registry.drafts[docId]
DeleteDraft(registry, docId) ==
    [registry EXCEPT !.drafts = [k \in (DOMAIN registry.drafts) \ {docId} |->
                                    registry.drafts[k]]]

\* the ids generateUniqueDocId can return for that registry at that time: an
\* id that is not a key, from one of the attempts, or, when the attempts can
\* all hit a key, a generated id with the time appended
generateUniqueDocId(registry, now) ==
    { id \in generateDocId : ~Has(registry.drafts, id) }
    \cup (IF \E id \in generateDocId : Has(registry.drafts, id)
          THEN { id \o <<"-">> \o DigitsOf(now) : id \in generateDocId }
          ELSE {})


----------------------------------------------------------------------------
(* Tool invocations.  The plugin runs in one JavaScript process: the code   *)
(* of a tool between two awaits of a subprocess runs without interruption,  *)
(* and other invocations run while it awaits.  inv[s] is the invocation in  *)
(* slot s: its arguments, the registry object it holds in memory, the       *)
(* subprocess it awaits and, once it has ended, what it returned or threw.  *)

Slots == {"s1", "s2"}

NoInvocation == [pc |-> "idle"]

Ended(s) == inv[s].pc \in {"idle", "done"}

\* the string of an id, for paths and messages
RECURSIVE Text(_)
Text(chars) == IF chars = <<>> THEN "" ELSE Head(chars) \o Text(Tail(chars))

\* join(getDocsBasePath(ctx), docId)
DraftDir(docId) == ".opencode/docs/" \o Text(docId)

\* str.split(sep) for a one-character separator
RECURSIVE SplitAt(_, _)
SplitAt(str, sep) ==
    IF \A i \in 1..Len(str) : str[i] # sep THEN <<str>>
    ELSE LET i == CHOOSE k \in 1..Len(str) :
                     str[k] = sep /\ \A j \in 1..(k - 1) : str[j] # sep
         IN  <<SubSeq(str, 1, i - 1)>> \o SplitAt(SubSeq(str, i + 1, Len(str)), sep)

\* getDocsBasePath(ctx), as the segments of the path below the project root
DocsBase == << <<".", "o", "p", "e", "n", "c", "o", "d", "e">>, <<"d", "o", "c", "s">> >>

\* path.normalize on segments: empty and "." segments go, ".." takes the
\* segment before it away (and stays at the project root)
RECURSIVE normalizeInto(_, _)
normalizeInto(acc, parts) ==
    IF parts = <<>> THEN acc
    ELSE normalizeInto(
             IF Head(parts) \in {<<>>, <<".">>} THEN acc
             ELSE IF Head(parts) = <<".", ".">>
                  THEN SubSeq(acc, 1, Len(acc) - 1)
                  ELSE Append(acc, Head(parts)),
             Tail(parts))

\* path.join(base, rel) for the segments of base and the string rel
join(base, rel) == normalizeInto(base, SplitAt(rel, "/"))

FilesOf(dirs, docId) == IF Has(dirs, docId) THEN dirs[docId] ELSE {}

WriteFile(dirs, docId, name) == (docId :> (FilesOf(dirs, docId) \cup {name})) @@ dirs

\* an rm that empties the directory
RemoveEveryFile(dirs, docId, name) ==
    IF Has(dirs, docId) THEN (docId :> {}) @@ dirs ELSE dirs

\* rm -f of a file of the directory, if the directory is still there
RemoveFile(dirs, docId, name) ==
    IF Has(dirs, docId) THEN (docId :> (dirs[docId] \ {name})) @@ dirs ELSE dirs

\* /tmp, whose files are kept in docsDir under this key
TmpDir == <<"/", "t", "m", "p">>

\* an rm -rf that leaves the directory in place
RemoveDirKept(dirs, docId) == dirs

\* rm -rf of the directory
RemoveDir(dirs, docId) == [k \in (DOMAIN dirs) \ {docId} |-> dirs[k]]

\* an invocation as it starts; overlaps says that another invocation was in
\* progress at that moment
Call(tool, callArgs) ==
    [tool |-> tool, args |-> callArgs, pc |-> "done",
     overlaps |-> \E t \in Slots : ~Ended(t),
     registry |-> <<>>, loaded |-> "", preset |-> <<>>, metadata |-> <<>>,
     cmd |-> <<>>, cwd |-> <<>>, dir |-> <<>>,
     spawned |-> 0, exited |-> 0, helper |-> <<>>, metaFile |-> "",
     proc |-> <<>>, result |-> <<>>]

\* const draftDir = join(getDocsBasePath(ctx), args.doc_id): the directory
\* the invocation works on from here
withDraftDir(call, docId) == [call EXCEPT !.dir = join(DocsBase, docId)]

Returns(text) == [thrown |-> FALSE, text |-> text]

Throws(text) == [thrown |-> TRUE, text |-> text]

\* the invocation in slot s ends with that result
End(s, call, result) ==
    inv' = [inv EXCEPT ![s] = [call EXCEPT !.pc = "done", !.result = result,
                                           !.registry = <<>>]]

----------------------------------------------------------------------------
(* docs_draft, docs_list_drafts *)

DocsDraft(s, title, preset) ==
    LET call == Call("docs_draft", [title |-> title, preset |-> preset])
        registry == readRegistry(registryFile)
    IN  IF ~HasDrafts(registry)
        THEN \* generateUniqueDocId evaluates registry.drafts[id]
             /\ End(s, call, Throws("TypeError"))
             /\ UNCHANGED <<registryFile, docsDir, clock, cache>>
        ELSE \E docId \in generateUniqueDocId(registry, clock) :
             LET entry == [title |-> title, preset |-> preset, created_at |-> clock,
                           last_modified |-> clock, status |-> "draft"]
             IN  /\ docsDir' = WriteFile(WriteFile(docsDir, docId, "draft.md"),
                                         docId, "meta.json")
                 /\ registryFile' = writeRegistry(SetDraft(registry, docId, entry))
                 /\ End(s, [call EXCEPT !.registry = registry],
                        [thrown |-> FALSE, text |-> "Draft created", docId |-> docId])
                 /\ UNCHANGED <<clock, cache>>

\* the status column of the listing
ListedStatus(registry, dirs, docId) ==
    IF "draft.md" \in FilesOf(dirs, docId) THEN registry.drafts[docId].status
    ELSE "missing"

\* a listing that writes the registry it has read back to the file
DocsListDraftsRewriting(s) ==
    /\ End(s, Call("docs_list_drafts", <<>>), Returns("No active drafts"))
    /\ registryFile' = writeRegistry(readRegistry(registryFile))
    /\ UNCHANGED <<docsDir, clock, cache>>

DocsListDrafts(s) ==
    LET call == Call("docs_list_drafts", <<>>)
        registry == readRegistry(registryFile)
    IN  /\ End(s, call,
               IF ~HasDrafts(registry) THEN Throws("TypeError")
               ELSE IF DOMAIN registry.drafts = {}
                    THEN Returns("No active drafts")
                    ELSE [thrown |-> FALSE, text |-> "Active document drafts",
                          drafts |-> [id \in DOMAIN registry.drafts |->
                                         ListedStatus(registry, docsDir, id)]])
        /\ UNCHANGED <<registryFile, docsDir, clock, cache>>

----------------------------------------------------------------------------
(* docs_delete_draft *)

DocsDeleteDraft(s, docId) ==
    LET call == Call("docs_delete_draft", [doc_id |-> docId])
        registry == readRegistry(registryFile)
    IN  IF ~isValidDocId(docId)
        THEN /\ End(s, call, Returns("Invalid document ID format"))
             /\ UNCHANGED <<registryFile, docsDir, clock, cache>>
        ELSE IF ~HasDrafts(registry)
        THEN /\ End(s, call, Throws("TypeError"))
             /\ UNCHANGED <<registryFile, docsDir, clock, cache>>
        ELSE IF ~Has(registry.drafts, docId)
        THEN /\ End(s, call, Returns("Draft not found"))
             /\ UNCHANGED <<registryFile, docsDir, clock, cache>>
        ELSE IF Has(docsDir, docId)
        THEN \* await Bun.spawn(["rm", "-rf", draftDir]).exited
             /\ inv' = [inv EXCEPT ![s] =
                          [withDraftDir(call, docId) EXCEPT
                              !.pc = "awaitRm", !.registry = registry,
                              !.helper = <<"rm", "-rf", DraftDir(docId)>>]]
             /\ UNCHANGED <<registryFile, docsDir, clock, cache>>
        ELSE /\ registryFile' = writeRegistry(DeleteDraft(registry, docId))
             /\ End(s, [withDraftDir(call, docId) EXCEPT !.registry = registry],
                    Returns("Deleted draft"))
             /\ UNCHANGED <<docsDir, clock, cache>>

\* the rest of docs_delete_draft once rm has exited: it writes the registry
\* object it read before the await
DeleteAfterRm(s) ==
    /\ inv[s].pc = "afterRm" /\ inv[s].tool = "docs_delete_draft"
    /\ registryFile' = writeRegistry(DeleteDraft(inv[s].registry, inv[s].args.doc_id))
    /\ End(s, inv[s], Returns("Deleted draft"))
    /\ UNCHANGED <<docsDir, clock, cache>>

\* the rm subprocess of an invocation exits.  rm removes what it was given;
\* its exit code is not looked at by the tools.
RmExit(s) ==
    /\ inv[s].pc = "awaitRm"
    /\ docsDir' = IF inv[s].tool = "docs_delete_draft"
                  THEN RemoveDir(docsDir, inv[s].args.doc_id)
                  ELSE IF inv[s].tool = "docs_compile"
                  THEN RemoveFile(docsDir, inv[s].args.doc_id, inv[s].metaFile)
                  ELSE RemoveFile(docsDir, TmpDir, inv[s].metaFile)
    /\ inv' = [inv EXCEPT ![s].pc = "afterRm", ![s].helper = <<>>]
    /\ UNCHANGED <<registryFile, clock, cache>>

\* Date.now() and new Date() move on.  MaxClock bounds the times of a run.
MaxClock == 2

Tick ==
    /\ clock < MaxClock
    /\ clock' = clock + 1
    /\ UNCHANGED <<registryFile, docsDir, inv, cache>>


----------------------------------------------------------------------------
(* Tools that run a conversion subprocess *)

\* a spawn that does not wait: the tool goes on as if the process had exited
SpawnNoWait(s, call, cmd, started) ==
    inv' = [inv EXCEPT ![s] =
              [call EXCEPT !.pc = "afterProc", !.cmd = cmd, !.spawned = call.spawned + 1,
                           !.proc = [exitCode |-> 0, stdout |-> EmptyText,
                                     stderr |-> EmptyText]]]

\* Bun.spawn(cmd) of the conversion process: it starts, and the tool awaits
\* its exit, or Bun.spawn throws and the tool ends with that exception
Spawn(s, call, cmd, started) ==
    IF started
    THEN inv' = [inv EXCEPT ![s] = [call EXCEPT !.pc = "awaitProc", !.cmd = cmd,
                                                !.spawned = call.spawned + 1]]
    ELSE End(s, [call EXCEPT !.cmd = cmd], Throws("spawn failed"))

\* `${doc_id}.pdf`, in the draft directory when docs_compile has no output_path
DraftPdf(docId) == Text(docId) \o ".pdf"

\* the conversion process of an invocation exits (the files it writes are
\* not part of the state)
ProcExit(s, exitCode, stdout, stderr) ==
    /\ inv[s].pc = "awaitProc"
    /\ inv' = [inv EXCEPT ![s].pc = "afterProc", ![s].exited = inv[s].exited + 1,
                          ![s].proc = [exitCode |-> exitCode, stdout |-> stdout,
                                       stderr |-> stderr]]
    /\ UNCHANGED <<registryFile, docsDir, clock, cache>>

\* preset.template?.path && !preset.resolved_template_path
TemplateMissing(preset) ==
    /\ Has(preset, "template") /\ TruthyPath(preset.template, "path")
    /\ ~TruthyPath(preset, "resolved_template_path")

\* resolver.getUserConfigDir() + "/assets"
AssetsDir == ScopeRoot("user") \o <<"assets">>

\* the logo variables docs_compile adds for its logo argument
logoVariables(a, logo) ==
    IF logo = "sit"
    THEN variable(variable(a, "logo-mode", <<"single">>),
                  "sit-logo", AssetsDir \o <<"sit-logo.png">>)
    ELSE IF logo = "uofg"
    THEN variable(variable(a, "logo-mode", <<"single">>),
                  "uofg-logo", AssetsDir \o <<"uofg-logo.png">>)
    ELSE IF logo = "both"
    THEN variable(variable(variable(a, "logo-mode", <<"both">>),
                           "sit-logo", AssetsDir \o <<"sit-logo.png">>),
                  "uofg-logo", AssetsDir \o <<"uofg-logo.png">>)
    ELSE a

\* <<argument of the tool, pandoc variable>>
SchoolFields == << <<"course", "course">>, <<"project_title", "project-title">>,
                   <<"group", "group">>, <<"version", "version">>,
                   <<"project_topic_id", "project-topic-id">> >>

RECURSIVE schoolVariables(_, _, _)
schoolVariables(a, o, fields) ==
    IF fields = <<>> THEN a
    ELSE LET f == Head(fields)
             a1 == IF Has(o, f[1]) /\ o[f[1]] # "" THEN variable(a, f[2], <<o[f[1]]>>)
                   ELSE a
         IN  schoolVariables(a1, o, Tail(fields))

\* the metadata object docs_compile builds from its arguments
CompileMetadataFields == <<"author", "date", "subtitle", "abstract", "keywords">>

compileMetadata(o) ==
    [f \in { g \in DOMAIN o : /\ \E i \in 1..Len(CompileMetadataFields) :
                                    CompileMetadataFields[i] = g
                              /\ o[g] # "" } |->
        IF f = "keywords" THEN [array |-> FALSE, text |-> o[f]] ELSE o[f]]

\* if (Object.keys(metadata).length > 0) pandoc.metadata(metadata)
ifMetadata(a, md) == IF DOMAIN md # {} THEN applyMetadata(a, md) ELSE a

\* if (args.bibliography) pandoc.bibliography(args.bibliography)
ifBibliography(a, path) == IF path # "" THEN bibliography(a, path) ELSE a

\* if (metadataFile) pandoc.metadataFile(metadataFile)
ifMetadataFile(a, metaFile) == IF metaFile # "" THEN metadataFile(a, metaFile) ELSE a

\* what docs_compile does to its builder, up to build()
compileArgs(preset, o, metaFile) ==
    ifMetadataFile(
        schoolVariables(
            logoVariables(
                ifBibliography(
                    ifMetadata(listings(applyPreset(NewArgs, preset)), compileMetadata(o)),
                    o.bibliography),
                o.logo),
            o, SchoolFields),
        metaFile)

\* `authors-${Date.now()}.yaml` in the draft directory
AuthorsFile(now) == "authors-" \o Text(DigitsOf(now)) \o ".yaml"

\* docs_compile from the result r of loadPreset to the call of execute(): the
\* exception it throws, or the command it runs and the file it wrote.
\* o.authors is "" (not given), "array" (the JSON text of an array of author
\* objects) or "invalid" (any other text)
compileFrom(r, presetName, docId, o, now) ==
    IF r.status # "ok"
    THEN [outcome |-> "throw", text |-> r.status, cache |-> r.cache,
          loaded |-> presetName]
    ELSE IF TemplateMissing(r.value)
    THEN [outcome |-> "throw", text |-> "Template not found", cache |-> r.cache,
          loaded |-> presetName]
    ELSE IF o.authors = "invalid"
    THEN [outcome |-> "throw", text |-> "Invalid authors JSON", cache |-> r.cache,
          loaded |-> presetName]
    ELSE LET metaFile == IF o.authors = "" THEN "" ELSE AuthorsFile(now)
             metaPath == IF o.authors = "" THEN ""
                         ELSE DraftDir(docId) \o "/" \o AuthorsFile(now)
             outputPath == IF o.output_path # "" THEN o.output_path
                           ELSE DraftDir(docId) \o "/" \o DraftPdf(docId)
         IN  [outcome |-> "execute", cache |-> r.cache, metaFile |-> metaFile,
              loaded |-> presetName, preset |-> r.value,
              cmd |-> build(compileArgs(r.value, o, metaPath),
                            DraftDir(docId) \o "/draft.md", outputPath)]

\* the preset is loaded once, and r is its result
compileWith(presetName, docId, o, now) ==
    CHOOSE plan \in { compileFrom(r, presetName, docId, o, now) :
                        r \in { loadPreset(presetName, o.logo, cache, MaxDepth) } } : TRUE

\* a docs_compile that loads the preset "a" whatever the entry says
compilePlanFixedPreset(docId, draftInfo, o, now) == compileWith("a", docId, o, now)

\* presetManager.loadPreset(draftInfo.preset, args.logo) and what follows
compilePlan(docId, draftInfo, o, now) == compileWith(draftInfo.preset, docId, o, now)

\* docs_compile from its write of the registry on, for the plan of the rest
compileRun(s, c1, written, docId, o, plan, started) ==
    /\ registryFile' = writeRegistry(written)
    /\ cache' = plan.cache
    /\ clock' = clock
    /\ IF plan.outcome = "throw"
       THEN /\ End(s, [c1 EXCEPT !.loaded = plan.loaded], Throws(plan.text))
            /\ docsDir' = docsDir
       ELSE /\ docsDir' = IF plan.metaFile # ""
                          THEN WriteFile(docsDir, docId, plan.metaFile)
                          ELSE docsDir
            /\ Spawn(s, [c1 EXCEPT !.loaded = plan.loaded,
                                   !.metaFile = plan.metaFile,
                                   !.preset = plan.preset,
                                   !.metadata = compileMetadata(o)],
                     plan.cmd, started)

\* the entry of the draft as docs_compile updates it
compiledInfo(registry, docId) ==
    [registry.drafts[docId] EXCEPT !.last_modified = clock, !.status = "compiled"]

DocsCompile(s, docId, o, started) ==
    LET call == Call("docs_compile", [doc_id |-> docId, options |-> o])
        registry == readRegistry(registryFile)
    IN  IF ~isValidDocId(docId)
        THEN /\ End(s, call, Returns("Invalid document ID format"))
             /\ UNCHANGED <<registryFile, docsDir, clock, cache>>
        ELSE IF ~HasDrafts(registry)
        THEN /\ End(s, call, Throws("TypeError"))
             /\ UNCHANGED <<registryFile, docsDir, clock, cache>>
        ELSE IF ~Has(registry.drafts, docId)
        THEN /\ End(s, call, Returns("Draft not found"))
             /\ UNCHANGED <<registryFile, docsDir, clock, cache>>
        ELSE IF "draft.md" \notin FilesOf(docsDir, docId)
        THEN /\ End(s, withDraftDir(call, docId), Returns("Draft file missing"))
             /\ UNCHANGED <<registryFile, docsDir, clock, cache>>
        ELSE \E plan \in { compilePlan(docId, compiledInfo(registry, docId), o, clock) } :
                 compileRun(s, [withDraftDir(call, docId) EXCEPT !.registry =
                                  SetDraft(registry, docId, compiledInfo(registry, docId))],
                            SetDraft(registry, docId, compiledInfo(registry, docId)),
                            docId, o, plan, started)

\* what docs_compile returns or throws for the result of execute()
compileResult(call) ==
    LET result == execute(call.proc)
    IN  IF ~result.success
        THEN [thrown |-> TRUE, text |-> "Compilation failed", error |-> result.error]
        ELSE Returns("Compiled")

\* docs_compile once execute() has returned: the cleanup of the authors file
CompileAfterExecute(s) ==
    /\ inv[s].pc = "afterProc" /\ inv[s].tool = "docs_compile"
    /\ IF /\ inv[s].metaFile # ""
          /\ inv[s].metaFile \in FilesOf(docsDir, inv[s].args.doc_id)
       THEN inv' = [inv EXCEPT ![s].pc = "awaitRm",
                               ![s].helper = <<"rm", "-f", inv[s].metaFile>>]
       ELSE End(s, inv[s], compileResult(inv[s]))
    /\ UNCHANGED <<registryFile, docsDir, clock, cache>>

CompileAfterCleanup(s) ==
    /\ inv[s].pc = "afterRm" /\ inv[s].tool = "docs_compile"
    /\ End(s, inv[s], compileResult(inv[s]))
    /\ UNCHANGED <<registryFile, docsDir, clock, cache>>


----------------------------------------------------------------------------
(* The draft tools called one after the other on one project *)

\* the presets of the project the tools run in
PluginFiles ==
    (<<"user", "a">> :> Spread([name |-> "a"], CfgA))
    @@ (<<"user", "a:b">> :> Spread([name |-> "a:b"], CfgAB))

DraftTitles == {"T"}

DraftPresets == {"a", "nope"}

NoOptions ==
    [output_path |-> "", author |-> "", date |-> "", subtitle |-> "", abstract |-> "",
     keywords |-> "", bibliography |-> "", logo |-> "", course |-> "",
     project_title |-> "", group |-> "", authors |-> "", version |-> "",
     project_topic_id |-> ""]

CompileOptions ==
    { NoOptions,
      [NoOptions EXCEPT !.author = "A", !.keywords = "k", !.bibliography = "refs.bib",
                        !.course = "C", !.authors = "array"],
      [NoOptions EXCEPT !.authors = "invalid"] }

\* "../x": not of the format of an id
InvalidId == <<".", ".", "/", "x">>

\* the ids the tools are called with: the keys of the registry, the ids that
\* can be generated, and one of invalid format
CallIds ==
    (IF HasDrafts(readRegistry(registryFile))
     THEN DOMAIN readRegistry(registryFile).drafts ELSE {})
    \cup generateDocId \cup {InvalidId}

ProcExits == { <<0, EmptyText>>, <<1, <<901>>>> }

\* cap on the number of entries of the registry
MaxDrafts == 2

Quiet == \A s \in Slots : Ended(s)

DraftCount ==
    IF HasDrafts(readRegistry(registryFile))
    THEN Cardinality(DOMAIN readRegistry(registryFile).drafts) ELSE 0

presetSide == <<files, installed, last, returned, mergeVars, builderVars>>

InitPlugin ==
    /\ files = PluginFiles /\ installed = UserInstalled /\ cache = <<>>
    /\ returned = <<>> /\ last = NoResult
    /\ IdleMerge /\ IdleBuilder
    /\ docsDir = <<>> /\ clock = 1
    /\ inv = [s \in Slots |-> NoInvocation]

InitDrafts == InitPlugin /\ registryFile = [kind |-> "missing", drafts |-> <<>>]

\* the steps of the invocation in slot s and of its subprocesses
Continue(s) ==
    \/ RmExit(s)
    \/ DeleteAfterRm(s)
    \/ \E e \in ProcExits : ProcExit(s, e[1], EmptyText, e[2])
    \/ CompileAfterExecute(s)
    \/ CompileAfterCleanup(s)

NextDrafts ==
    \/ \E t \in DraftTitles, p \in DraftPresets :
          Quiet /\ DocsDraft("s1", t, p) /\ DraftCount' <= MaxDrafts /\ UNCHANGED presetSide
    \/ Quiet /\ DocsListDrafts("s1") /\ UNCHANGED presetSide
    \/ \E id \in CallIds, o \in CompileOptions :
          Quiet /\ DocsCompile("s1", id, o, TRUE) /\ UNCHANGED presetSide
    \/ \E id \in CallIds : Quiet /\ DocsDeleteDraft("s1", id) /\ UNCHANGED presetSide
    \/ Continue("s1") /\ UNCHANGED presetSide
    \/ Tick /\ UNCHANGED presetSide

SpecDrafts == InitDrafts /\ [][NextDrafts]_vars


----------------------------------------------------------------------------
(* The draft tools on a project whose registry file has any content *)

RegistryContents ==
    { [kind |-> k, drafts |-> <<>>] :
        k \in {"missing", "unparseable", "null", "no_drafts", "ok"} }

InitRegistry == InitPlugin /\ registryFile \in RegistryContents

SpecRegistry == InitRegistry /\ [][NextDrafts]_vars

DraftTools == {"docs_draft", "docs_list_drafts", "docs_compile", "docs_delete_draft"}

\* C13: whatever the registry file holds, no draft tool fails on reading it:
\* an invocation of docs_draft, docs_list_drafts, docs_compile or
\* docs_delete_draft never ends with the TypeError of using what was read
C13_RegistryTolerated ==
    \A s \in Slots :
        (inv[s].pc = "done" /\ inv[s].tool \in DraftTools)
            => ~(inv[s].result.thrown /\ inv[s].result.text = "TypeError")

\* C14: docs_compile and docs_delete_draft called with a doc_id of invalid
\* format end with a thrown exception, not with a returned value
C14_InvalidIdThrows ==
    \A s \in Slots :
        (/\ inv[s].pc = "done"
         /\ inv[s].tool \in {"docs_compile", "docs_delete_draft"}
         /\ ~isValidDocId(inv[s].args.doc_id))
            => inv[s].result.thrown


----------------------------------------------------------------------------
(* Claims on the life of a draft *)

\* the entries of the registry file as the tools read them
Drafts(file) == readRegistry(file).drafts

\* the step is a docs_draft invocation that returned
DraftReturned(s) ==
    /\ inv'[s].pc = "done" /\ inv'[s].tool = "docs_draft"
    /\ DocsDraft(s, inv'[s].args.title, inv'[s].args.preset)
    /\ ~inv'[s].result.thrown

\* C15: a docs_draft invocation that completes leaves the registry with
\* exactly one entry more than before, keyed by the returned id, with status
\* "draft" and the given title and preset, and every earlier entry unchanged
C15_DraftAddsOne ==
    [][\A s \in Slots : DraftReturned(s) =>
          LET docId == inv'[s].result.docId
              old == Drafts(registryFile)
              new == Drafts(registryFile')
          IN  /\ docId \notin DOMAIN old
              /\ DOMAIN new = DOMAIN old \cup {docId}
              /\ new[docId].status = "draft"
              /\ new[docId].title = inv'[s].args.title
              /\ new[docId].preset = inv'[s].args.preset
              /\ \A k \in DOMAIN old : new[k] = old[k]]_vars


\* the step ends a docs_delete_draft invocation with "Deleted draft"
\* the step is a call of docs_compile in slot s
CompileCalled(s) ==
    /\ inv'[s].pc # "idle" /\ inv'[s].tool = "docs_compile"
    /\ \E b \in BOOLEAN :
          DocsCompile(s, inv'[s].args.doc_id, inv'[s].args.options, b)

\* the step is a call of docs_delete_draft in slot s
DeleteCalled(s) ==
    /\ inv'[s].pc # "idle" /\ inv'[s].tool = "docs_delete_draft"
    /\ DocsDeleteDraft(s, inv'[s].args.doc_id)

DeleteSucceeded(s) ==
    /\ inv'[s].pc = "done" /\ inv'[s].tool = "docs_delete_draft"
    /\ inv'[s].result.text = "Deleted draft"
    /\ DeleteAfterRm(s) \/ DeleteCalled(s)

\* the step is a docs_compile or docs_delete_draft call with a well-formed
\* id that is not a key of the registry
CalledWithoutEntry(s) ==
    /\ CompileCalled(s) \/ DeleteCalled(s)
    /\ isValidDocId(inv'[s].args.doc_id)
    /\ inv'[s].args.doc_id \notin DOMAIN Drafts(registryFile)

compileAccepts(docId) ==
    /\ isValidDocId(docId)
    /\ HasDrafts(readRegistry(registryFile))
    /\ Has(Drafts(registryFile), docId)
    /\ "draft.md" \in FilesOf(docsDir, docId)

\* the invocation in slot s is a docs_compile of an existing draft
CompilesDraft(s) ==
    inv[s].pc # "idle" /\ inv[s].tool = "docs_compile" /\ inv[s].loaded # ""

\* C17: docs_compile does not remove or consume the draft: from the moment a
\* docs_compile of an existing draft has passed its checks, through its
\* subprocesses and after it has returned or thrown, the registry entry and
\* draft.md of the id exist and docs_compile of the id is accepted again
C17_CompileKeepsDraft ==
    \A s \in Slots :
        CompilesDraft(s) =>
            /\ Has(Drafts(registryFile), inv[s].args.doc_id)
            /\ "draft.md" \in FilesOf(docsDir, inv[s].args.doc_id)
            /\ compileAccepts(inv[s].args.doc_id)

\* a docs_compile of an existing draft has failed on the exit code of pandoc,
\* after its authors file was cleaned up and while time went on
C17_Witness ==
    /\ CompilesDraft("s1") /\ inv["s1"].pc = "done"
    /\ inv["s1"].result.thrown /\ inv["s1"].result.text = "Compilation failed"
    /\ inv["s1"].metaFile # ""
    /\ inv["s1"].metaFile \notin FilesOf(docsDir, inv["s1"].args.doc_id)
    /\ Drafts(registryFile)[inv["s1"].args.doc_id].status = "compiled"
    /\ Drafts(registryFile)[inv["s1"].args.doc_id].last_modified
          < clock


\* the step belongs to a docs_compile invocation
CompileStep(s) ==
    \/ CompileCalled(s)
    \/ CompileAfterExecute(s)
    \/ CompileAfterCleanup(s)

\* C18: docs_compile loads the preset named in the registry entry of the
\* doc_id, and no step of a docs_compile changes the title, preset or
\* created_at of an entry or anything of an entry of another id
C18_CompileUsesRecordedPreset ==
    [][\A s \in Slots : CompileStep(s) =>
          LET old == Drafts(registryFile)
              new == Drafts(registryFile')
          IN  /\ inv'[s].loaded # "" =>
                    inv'[s].loaded = old[inv'[s].args.doc_id].preset
              /\ DOMAIN new = DOMAIN old
              /\ \A k \in DOMAIN old :
                    /\ new[k].title = old[k].title
                    /\ new[k].preset = old[k].preset
                    /\ new[k].created_at = old[k].created_at
                    /\ k # inv'[s].args.doc_id => new[k] = old[k]]_vars

\* a docs_compile has loaded the preset "nope" of its entry and ended; the
\* entry, created at an earlier time, is now compiled and modified later, and
\* the registry has another entry
C18_Witness ==
    /\ CompilesDraft("s1") /\ inv["s1"].pc = "done" /\ inv["s1"].loaded = "nope"
    /\ LET e == Drafts(registryFile)[inv["s1"].args.doc_id]
       IN  /\ e.preset = "nope" /\ e.status = "compiled"
           /\ e.created_at < e.last_modified
    /\ Cardinality(DOMAIN Drafts(registryFile)) > 1


----------------------------------------------------------------------------
(* Two invocations at a time: docs_draft and docs_delete_draft.  A          *)
(* docs_delete_draft awaits rm between its read and its write of the        *)
(* registry, and another invocation can run in that time.                   *)

NextRace ==
    \/ \E s \in Slots, t \in DraftTitles, p \in DraftPresets :
          /\ Ended(s) /\ DocsDraft(s, t, p) /\ DraftCount' <= MaxDrafts
          /\ UNCHANGED presetSide
    \/ \E s \in Slots, id \in CallIds :
          Ended(s) /\ DocsDeleteDraft(s, id) /\ UNCHANGED presetSide
    \/ \E s \in Slots : RmExit(s) /\ UNCHANGED presetSide
    \/ \E s \in Slots : DeleteAfterRm(s) /\ UNCHANGED presetSide

SpecRace == InitDrafts /\ [][NextRace]_vars

\* the invocation in slot s started while no other was in progress, and no
\* invocation now in another slot started while one was in progress
Undisturbed(s) ==
    /\ ~inv[s].overlaps
    /\ \A d \in Slots \ {s} : inv[d].pc = "idle" \/ ~inv[d].overlaps

\* C12 (one after the other): an invocation that runs while no other is in
\* progress applies its update to the registry the earlier ones left, so no
\* update is lost: a docs_draft that returns id x leaves an entry for x and
\* every entry of another id as it was, and a docs_delete_draft that deletes
\* id y removes the entry of y and nothing else
C12_SequentialKeepsBoth ==
    [][\A s \in Slots :
          LET old == Drafts(registryFile)
              new == Drafts(registryFile')
          IN  /\ (Quiet /\ DraftReturned(s)) =>
                    /\ Has(new, inv'[s].result.docId)
                    /\ \A k \in (DOMAIN old) \ {inv'[s].result.docId} :
                          Has(new, k) /\ new[k] = old[k]
              /\ (DeleteSucceeded(s) /\ (Quiet \/ (~Ended(s) /\ Undisturbed(s)))) =>
                    /\ DOMAIN new = (DOMAIN old) \ {inv'[s].args.doc_id}
                    /\ \A k \in DOMAIN new : new[k] = old[k]]_vars

\* C12 (interleaved): a docs_delete_draft read the registry, a docs_draft
\* that started during its await of rm read it too, added its entry and
\* returned id x, then the docs_delete_draft wrote the registry it had read:
\* both have ended and the registry file has no entry for x
C12_Witness ==
    \E s \in Slots, d \in Slots :
        /\ s # d
        /\ inv[s].pc = "done" /\ inv[s].tool = "docs_draft" /\ ~inv[s].result.thrown
        /\ inv[s].overlaps
        /\ inv[d].pc = "done" /\ inv[d].tool = "docs_delete_draft"
        /\ inv[d].result.text = "Deleted draft"
        /\ inv[d].args.doc_id # inv[s].result.docId
        /\ ~Has(Drafts(registryFile), inv[s].result.docId)
        /\ Has(docsDir, inv[s].result.docId)


----------------------------------------------------------------------------
(* The tools that convert a file.  Their path arguments are sequences of     *)
(* characters, as the ids are.                                               *)

\* parts.join(sep)
RECURSIVE JoinWith(_, _)
JoinWith(parts, sep) ==
    IF parts = <<>> THEN <<>>
    ELSE IF Len(parts) = 1 THEN parts[1]
    ELSE parts[1] \o <<sep>> \o JoinWith(Tail(parts), sep)

EndsWith(str, suffix) ==
    Len(str) >= Len(suffix)
    /\ SubSeq(str, Len(str) - Len(suffix) + 1, Len(str)) = suffix

\* name.replace(/\.[^/.]+$/, "")
StripExtension(name) ==
    LET dots == { i \in 1..Len(name) : name[i] = "." }
        dot == IF dots = {} THEN 0 ELSE CHOOSE i \in dots : \A j \in dots : j <= i
    IN  IF dot = 0 \/ dot = Len(name)
           \/ \E j \in (dot + 1)..Len(name) : name[j] = "/"
        THEN name
        ELSE SubSeq(name, 1, dot - 1)

\* computeOutputPath(inputPath, outputDir, outputFormat); outputDir <<>> when
\* it is not given
computeOutputPath(inputPath, outputDir, outputFormat) ==
    LET segments == SplitAt(inputPath, "/")
        inputDir == JoinWith(SubSeq(segments, 1, Len(segments) - 1), "/")
        stripped == StripExtension(segments[Len(segments)])
        fileName == IF stripped = <<>> THEN <<"o", "u", "t", "p", "u", "t">> ELSE stripped
        targetDir == IF outputDir # <<>> THEN outputDir ELSE inputDir
    IN  targetDir \o <<"/">> \o fileName \o <<".">> \o outputFormat

Pdf == <<"p", "d", "f">>

Tex == <<"t", "e", "x">>

\* path.replace(/\.pdf$/, '.tex')
replacePdfByTex(path) ==
    IF EndsWith(path, <<".">> \o Pdf)
    THEN SubSeq(path, 1, Len(path) - 4) \o <<".">> \o Tex
    ELSE path

\* builder.simpleTables(): the method is not part of the builder given in the
\* sources; it is taken to append one flag to the arguments
simpleTables(a) == Append(a, <<"simple-tables">>)

\* name.includes('ieee'), for the preset names of this catalogue
includesIeee(name) == name \in {"ieee-conference", "ieee-journal"}

\* preset.name?.includes('ieee') || args.preset?.includes('ieee')
isIeee(preset, presetName) ==
    (Has(preset, "name") /\ includesIeee(preset.name)) \/ includesIeee(presetName)

\* the metadata object a tool builds from its arguments: the named arguments
\* that are given, the keywords as a string
callMetadata(o, fields) ==
    [f \in { g \in fields : Has(o, g) /\ o[g] # "" } |->
        IF f = "keywords" THEN [array |-> FALSE, text |-> o[f]] ELSE o[f]]

\* if (the condition of the tool) pandoc.simpleTables()
ifSimpleTables(a, wanted) == IF wanted THEN simpleTables(a) ELSE a

CreateFields == {"title", "author", "date", "subtitle", "abstract", "keywords"}

IeeePaperFields == {"title", "author", "abstract", "keywords"}

\* a docs_create that applies the metadata of the call before the preset
createArgsMetadataFirst(preset, o) ==
    ifSimpleTables(
        ifBibliography(
            listings(applyPreset(applyMetadata(NewArgs, callMetadata(o, CreateFields)),
                                 preset)),
            o.bibliography),
        isIeee(preset, o.preset) /\ TruthyPath(preset, "resolved_template_path"))

\* docs_create: the builder calls up to build()
createArgs(preset, o) ==
    ifSimpleTables(
        ifBibliography(
            applyMetadata(listings(applyPreset(NewArgs, preset)),
                          callMetadata(o, CreateFields)),
            o.bibliography),
        isIeee(preset, o.preset) /\ TruthyPath(preset, "resolved_template_path"))

\* docs_create_ieee_paper: the builder calls up to build()
ieeePaperArgs(preset, o) ==
    simpleTables(
        ifBibliography(
            applyMetadata(applyPreset(NewArgs, preset), callMetadata(o, IeeePaperFields)),
            o.bibliography))

\* docs_generate_latex: the builder calls up to build()
generateLatexArgs(preset, o) ==
    ifSimpleTables(
        ifBibliography(
            applyMetadata(applyPreset(NewArgs, preset), callMetadata(o, CreateFields)),
            o.bibliography),
        isIeee(preset, o.preset))

\* the preset a tool got from loadPreset, {} when loadPreset threw
presetOf(r) == IF r.status = "ok" THEN r.value ELSE EmptyObj

\* resolved_template_path.split("/").slice(0, -1).join("/")
TemplateDir(preset) ==
    IF TruthyPath(preset, "resolved_template_path")
    THEN DirOf(preset.resolved_template_path) ELSE <<>>

\* a tool that has loaded a preset with result r: it throws what loadPreset
\* threw, or fails its template check (missing), or executes the command
PresetTool(s, call, r, missing, cmd, md, cwd, started) ==
    /\ cache' = r.cache
    /\ UNCHANGED <<registryFile, docsDir, clock>>
    /\ IF r.status # "ok" THEN End(s, call, Throws(r.status))
       ELSE IF missing THEN End(s, call, Throws("Template not found"))
       ELSE Spawn(s, [call EXCEPT !.preset = r.value, !.metadata = md, !.cwd = cwd],
                  cmd, started)

createWith(s, o, started, r) ==
    PresetTool(s, [Call("docs_create", o) EXCEPT !.loaded = o.preset], r,
               TemplateMissing(presetOf(r)),
               build(createArgs(presetOf(r), o), Text(o.input_path),
                     Text(computeOutputPath(o.input_path, o.output_dir, Pdf))),
               callMetadata(o, CreateFields),
               IF isIeee(presetOf(r), o.preset) THEN TemplateDir(presetOf(r)) ELSE <<>>,
               started)

DocsCreate(s, o, started) ==
    \E r \in { loadPreset(o.preset, o.logo, cache, MaxDepth) } :
        createWith(s, o, started, r)

\* args.format === "journal" ? "ieee-journal" : "ieee-conference"
ieeePreset(o) == IF o.format = "journal" THEN "ieee-journal" ELSE "ieee-conference"

ieeePaperWith(s, o, started, r) ==
    PresetTool(s, [Call("docs_create_ieee_paper", o) EXCEPT !.loaded = ieeePreset(o)], r,
               ~TruthyPath(presetOf(r), "resolved_template_path"),
               build(ieeePaperArgs(presetOf(r), o), Text(o.input_path),
                     Text(computeOutputPath(o.input_path, o.output_dir, Pdf))),
               callMetadata(o, IeeePaperFields),
               TemplateDir(presetOf(r)),
               started)

DocsCreateIeeePaper(s, o, started) ==
    \E r \in { loadPreset(ieeePreset(o), "", cache, MaxDepth) } :
        ieeePaperWith(s, o, started, r)

generateLatexWith(s, o, started, r) ==
    PresetTool(s, [Call("docs_generate_latex", o) EXCEPT !.loaded = o.preset], r,
               TemplateMissing(presetOf(r)),
               build(generateLatexArgs(presetOf(r), o), Text(o.input_path),
                     Text(IF o.output_path # <<>> THEN o.output_path
                          ELSE replacePdfByTex(computeOutputPath(o.input_path, <<>>, Tex)))),
               callMetadata(o, CreateFields),
               <<>>,
               started)

DocsGenerateLatex(s, o, started) ==
    \E r \in { loadPreset(o.preset, o.logo, cache, MaxDepth) } :
        generateLatexWith(s, o, started, r)

DocsConvert(s, o, started) ==
    LET a == IF o.from_format # "" THEN from(NewArgs, o.from_format) ELSE NewArgs IN
    /\ Spawn(s, Call("docs_convert", o),
             build(a, Text(o.input_path),
                   Text(computeOutputPath(o.input_path, o.output_dir, o.output_format))),
             started)
    /\ UNCHANGED <<registryFile, docsDir, clock, cache>>

\* docs_compile_latex: one pdflatex process
DocsCompileLatex(s, o, started) ==
    LET call == Call("docs_compile_latex", o)
        segments == SplitAt(o.file_path, "/")
        inputDir == JoinWith(SubSeq(segments, 1, Len(segments) - 1), "/")
        outputDir == IF o.output_dir # <<>> THEN o.output_dir ELSE inputDir
    IN  /\ IF ~EndsWith(o.file_path, <<".">> \o Tex)
           THEN End(s, call, Throws("Input file must be a .tex file"))
           ELSE Spawn(s, call,
                      << <<"pdflatex">>, <<"-output-directory">>, <<Text(outputDir)>>,
                         <<"-interaction=nonstopmode">>, <<Text(o.file_path)>> >>,
                      started)
        /\ UNCHANGED <<registryFile, docsDir, clock, cache>>

\* docs_create_styled_pdf: the builder calls up to build()
styledPdfArgs(templatePath, o) ==
    LET a1 == listings(pdfEngine(template(from(NewArgs, "markdown-smart"), templatePath),
                                 "xelatex"))
        a2 == variable(a1, "titlepage", <<"true">>)
        a3 == variable(a2, "titlepage-color",
                       <<IF o.title_color # "" THEN o.title_color ELSE "06386e">>)
        a4 == variable(variable(a3, "titlepage-text-color", <<"FFFFFF">>),
                       "colorlinks", <<"true">>)
        a5 == IF o.include_toc # "false"
              THEN variable(toc(a4), "toc-own-page", <<"true">>) ELSE a4
    IN  applyMetadata(a5, callMetadata(o, {"title", "author", "date"}))

DocsCreateStyledPdf(s, o, started) ==
    LET call == Call("docs_create_styled_pdf", o)
        tpl == resolveTemplate(IF o.template # <<>> THEN o.template ELSE <<"eisvogel">>)
    IN  /\ IF ~tpl.found THEN End(s, call, Throws("Template not found"))
           ELSE Spawn(s, call,
                      build(styledPdfArgs(tpl.path, o), Text(o.input_path),
                            Text(computeOutputPath(o.input_path, o.output_dir, Pdf))),
                      started)
        /\ UNCHANGED <<registryFile, docsDir, clock, cache>>

\* what these tools return or throw for the subprocess that exited
toolResult(call) ==
    IF call.tool = "docs_compile_latex"
    THEN IF call.proc.exitCode # 0
         THEN [thrown |-> TRUE, text |-> "Compilation failed", error |-> call.proc.stderr]
         ELSE Returns("Compiled")
    ELSE IF execute(call.proc).success THEN Returns("Created")
         ELSE [thrown |-> TRUE, text |-> "Failed", error |-> execute(call.proc).error]

SimpleTools == {"docs_create", "docs_create_ieee_paper", "docs_generate_latex",
                "docs_convert", "docs_compile_latex", "docs_create_styled_pdf"}

\* the rest of such a tool once its subprocess has exited
ToolAfterExecute(s) ==
    /\ inv[s].pc = "afterProc" /\ inv[s].tool \in SimpleTools
    /\ End(s, inv[s], toolResult(inv[s]))
    /\ UNCHANGED <<registryFile, docsDir, clock, cache>>


\* <<argument of docs_create_school_report, pandoc variable>>
MarginFields == << <<"top_margin", "top-margin">>, <<"bottom_margin", "bottom-margin">>,
                   <<"left_margin", "left-margin">>, <<"right_margin", "right-margin">> >>

TitlePageFields == << <<"title", "title">>, <<"course", "course">>,
                      <<"project_title", "project-title">>, <<"group", "group">>,
                      <<"date", "date">>, <<"version", "version">>,
                      <<"project_topic_id", "project-topic-id">> >>

\* `/tmp/pandoc-authors-${Date.now()}.yaml`
TmpAuthorsFile(now) == "pandoc-authors-" \o Text(DigitsOf(now)) \o ".yaml"

\* docs_create_school_report: the builder calls up to build()
schoolReportArgs(preset, o, metaPath) ==
    LET a1 == listings(pdfEngine(template(NewArgs, preset.resolved_template_path),
                                 "xelatex"))
        a2 == IF Has(preset, "pandoc") /\ Has(preset.pandoc, "from")
                 /\ preset.pandoc.from # ""
              THEN from(a1, preset.pandoc.from) ELSE a1
        a3 == IF o.margin # "" THEN variable(a2, "margin", <<o.margin>>)
              ELSE schoolVariables(a2, o, MarginFields)
        a4 == variable(logoVariables(a3, o.logo), "titlepage", <<"true">>)
        a5 == schoolVariables(a4, o, TitlePageFields)
        a6 == IF o.authors # "" THEN metadataFile(a5, metaPath)
              ELSE IF o.author # "" THEN variable(a5, "author", <<o.author>>)
              ELSE a5
        a7 == IF o.include_toc # "false"
              THEN variable(toc(a6), "toc-own-page", <<"true">>) ELSE a6
    IN  variable(variable(variable(a7, "colorlinks", <<"true">>),
                          "linkcolor", <<"blue">>),
                 "numbersections", <<"true">>)

schoolReportWith(s, o, started, r) ==
    /\ cache' = r.cache
    /\ UNCHANGED <<registryFile, clock>>
    /\ IF r.status # "ok"
       THEN End(s, Call("docs_create_school_report", o), Throws(r.status))
            /\ docsDir' = docsDir
       ELSE IF ~TruthyPath(r.value, "resolved_template_path")
       THEN End(s, Call("docs_create_school_report", o), Throws("Template not found"))
            /\ docsDir' = docsDir
       ELSE IF o.authors = "invalid"
       THEN End(s, Call("docs_create_school_report", o), Throws("Invalid authors JSON"))
            /\ docsDir' = docsDir
       ELSE /\ docsDir' = IF o.authors # ""
                          THEN WriteFile(docsDir, TmpDir, TmpAuthorsFile(clock))
                          ELSE docsDir
            /\ Spawn(s, [Call("docs_create_school_report", o) EXCEPT
                            !.loaded = "school-report", !.preset = r.value,
                            !.metaFile = IF o.authors # "" THEN TmpAuthorsFile(clock)
                                         ELSE ""],
                     build(schoolReportArgs(r.value, o,
                                            IF o.authors # ""
                                            THEN "/tmp/" \o TmpAuthorsFile(clock) ELSE ""),
                           Text(o.input_path),
                           Text(computeOutputPath(o.input_path, o.output_dir, Pdf))),
                     started)

DocsCreateSchoolReport(s, o, started) ==
    \E r \in { loadPreset("school-report", "", cache, MaxDepth) } :
        schoolReportWith(s, o, started, r)

\* docs_create_school_report once execute() has returned: a failure is
\* thrown at once, the authors file is removed after a success
SchoolAfterExecute(s) ==
    /\ inv[s].pc = "afterProc" /\ inv[s].tool = "docs_create_school_report"
    /\ IF ~execute(inv[s].proc).success
       THEN End(s, inv[s], [thrown |-> TRUE, text |-> "Failed",
                            error |-> execute(inv[s].proc).error])
       ELSE IF inv[s].metaFile # ""
       THEN inv' = [inv EXCEPT ![s].pc = "awaitRm",
                               ![s].helper = <<"rm", "-f", inv[s].metaFile>>]
       ELSE End(s, inv[s], Returns("Created school report"))
    /\ UNCHANGED <<registryFile, docsDir, clock, cache>>

SchoolAfterCleanup(s) ==
    /\ inv[s].pc = "afterRm" /\ inv[s].tool = "docs_create_school_report"
    /\ End(s, inv[s], Returns("Created school report"))
    /\ UNCHANGED <<registryFile, docsDir, clock, cache>>

----------------------------------------------------------------------------
(* The converting tools called one after the other, on a project with one    *)
(* draft                                                                     *)

InputPath == <<"/", "w", "/", "p", ".", "m", "d">>

TexPath == <<"/", "w", "/", "p", ".", "t", "e", "x">>

OutDir == <<"/", "o">>

NoMetadata == [title |-> "", author |-> "", date |-> "", subtitle |-> "",
               abstract |-> "", keywords |-> "", bibliography |-> ""]

SomeMetadata == [title |-> "T", author |-> "A", date |-> "", subtitle |-> "",
                 abstract |-> "Abs", keywords |-> "k", bibliography |-> "refs.bib"]

MetadataInputs == {NoMetadata, SomeMetadata}

\* arguments of docs_create and docs_generate_latex
CreateCalls ==
    { Spread(md, [input_path |-> InputPath, preset |-> p, output_dir |-> d,
                  output_path |-> d, logo |-> ""]) :
        md \in MetadataInputs, p \in {"a", "ieee-conference", "nope"},
        d \in {<<>>, OutDir} }

IeeeCalls ==
    { Spread(md, [input_path |-> InputPath, format |-> f, output_dir |-> <<>>]) :
        md \in MetadataInputs, f \in {"", "journal"} }

ConvertCalls ==
    { [input_path |-> InputPath, output_format |-> Pdf, from_format |-> f,
       output_dir |-> <<>>] : f \in {"", "markdown"} }

LatexCalls ==
    { [file_path |-> f, output_dir |-> <<>>] : f \in {TexPath, InputPath} }

StyledCalls ==
    { [input_path |-> InputPath, template |-> t, title |-> "T", author |-> "",
       date |-> "", title_color |-> "", include_toc |-> "", output_dir |-> <<>>] :
        t \in {<<>>, <<"ieee", "template.latex">>} }

SchoolCalls ==
    { [input_path |-> InputPath, output_dir |-> <<>>, logo |-> l, margin |-> "",
       top_margin |-> "2cm", bottom_margin |-> "", left_margin |-> "",
       right_margin |-> "", title |-> "T", course |-> "", project_title |-> "",
       group |-> "", author |-> "A", authors |-> au, date |-> "", version |-> "",
       project_topic_id |-> "", include_toc |-> ""] :
        l \in {"", "both"}, au \in {"", "array", "invalid"} }

\* the id and the registry entry of the draft of the project
TheDraft == CHOOSE id \in generateDocId : TRUE

InitTools ==
    /\ files = PluginFiles
    /\ installed = UserInstalled
                   \cup {ScopeRoot("user") \o <<"templates", "sit-uofg", "template.latex">>}
    /\ cache = <<>> /\ returned = <<>> /\ last = NoResult
    /\ IdleMerge /\ IdleBuilder
    /\ registryFile = [kind |-> "ok",
                       drafts |-> (TheDraft :> [title |-> "T", preset |-> "a",
                                                created_at |-> 1, last_modified |-> 1,
                                                status |-> "draft"])]
    /\ docsDir = (TheDraft :> {"draft.md", "meta.json"})
    /\ clock = 1
    /\ inv = [s \in Slots |-> NoInvocation]

NextTools ==
    \/ \E o \in CreateCalls, b \in BOOLEAN :
          Quiet /\ DocsCreate("s1", o, b) /\ UNCHANGED presetSide
    \/ \E o \in IeeeCalls, b \in BOOLEAN :
          Quiet /\ DocsCreateIeeePaper("s1", o, b) /\ UNCHANGED presetSide
    \/ \E o \in CreateCalls, b \in BOOLEAN :
          Quiet /\ DocsGenerateLatex("s1", o, b) /\ UNCHANGED presetSide
    \/ \E o \in ConvertCalls, b \in BOOLEAN :
          Quiet /\ DocsConvert("s1", o, b) /\ UNCHANGED presetSide
    \/ \E o \in LatexCalls, b \in BOOLEAN :
          Quiet /\ DocsCompileLatex("s1", o, b) /\ UNCHANGED presetSide
    \/ \E o \in StyledCalls, b \in BOOLEAN :
          Quiet /\ DocsCreateStyledPdf("s1", o, b) /\ UNCHANGED presetSide
    \/ \E o \in SchoolCalls, b \in BOOLEAN :
          Quiet /\ DocsCreateSchoolReport("s1", o, b) /\ UNCHANGED presetSide
    \/ \E o \in CompileOptions, b \in BOOLEAN :
          Quiet /\ DocsCompile("s1", TheDraft, o, b) /\ UNCHANGED presetSide
    \/ \E e \in ProcExits : ProcExit("s1", e[1], EmptyText, e[2]) /\ UNCHANGED presetSide
    \/ RmExit("s1") /\ UNCHANGED presetSide
    \/ CompileAfterExecute("s1") /\ UNCHANGED presetSide
    \/ CompileAfterCleanup("s1") /\ UNCHANGED presetSide
    \/ ToolAfterExecute("s1") /\ UNCHANGED presetSide
    \/ SchoolAfterExecute("s1") /\ UNCHANGED presetSide
    \/ SchoolAfterCleanup("s1") /\ UNCHANGED presetSide

SpecTools == InitTools /\ [][NextTools]_vars


\* the tools that produce a document by running a conversion process
DocumentTools ==
    {"docs_convert", "docs_create", "docs_compile", "docs_create_ieee_paper",
     "docs_generate_latex", "docs_create_school_report", "docs_create_styled_pdf",
     "docs_compile_latex"}

\* the invocation in slot s is one of a document-producing tool that has
\* called Bun.spawn with its command
Executes(s) ==
    /\ inv[s].pc # "idle"
    /\ inv[s].tool \in DocumentTools
    /\ inv[s].cmd # <<>>

\* C11: an invocation of a document-producing tool that reaches execution
\* starts one conversion process and no second one, it waits exactly while
\* that process has started and not exited, and it has returned or thrown only
\* when the process has exited; the one invocation that ends without an exit is
\* the one whose Bun.spawn threw, which has no process to wait for
C11_OneProcessAwaited ==
    \A s \in Slots :
        Executes(s) =>
            /\ inv[s].spawned <= 1
            /\ inv[s].exited <= inv[s].spawned
            /\ (inv[s].pc = "awaitProc") <=> (inv[s].spawned = 1 /\ inv[s].exited = 0)
            /\ Ended(s) => /\ inv[s].exited = inv[s].spawned
                           /\ inv[s].spawned = 0 => inv[s].result = Throws("spawn failed")

\* a document-producing tool has returned after its one process exited
C11_Witness ==
    \E s \in Slots :
        /\ Executes(s) /\ Ended(s)
        /\ inv[s].spawned = 1 /\ inv[s].exited = 1
        /\ ~inv[s].result.thrown


\* the tools that apply a preset and then the metadata of the call
OverrideTools ==
    {"docs_create", "docs_compile", "docs_create_ieee_paper", "docs_generate_latex"}

\* the input path the tool of the call gives to its builder
InputOf(call) ==
    IF call.tool = "docs_compile" THEN DraftDir(call.args.doc_id) \o "/draft.md"
    ELSE Text(call.args.input_path)

\* the invocation in slot s is one of these tools and has built its command
Overrides(s) ==
    /\ inv[s].pc # "idle"
    /\ inv[s].tool \in OverrideTools
    /\ inv[s].cmd # <<>>

\* C19: in the command of docs_create, docs_compile, docs_create_ieee_paper
\* and docs_generate_latex the arguments of applyPreset come first, right after
\* pandoc, the arguments made from the metadata of the call stand together
\* somewhere after all of them, and the last three arguments are the input
\* path, -o and an output path
C19_MetadataAfterPreset ==
    \A s \in Slots :
        Overrides(s) =>
            LET cmd == inv[s].cmd
                fromPreset == applyPreset(NewArgs, inv[s].preset)
                fromMetadata == Tail(applyMetadata(NewArgs, inv[s].metadata))
                n == Len(cmd)
            IN  /\ n >= Len(fromPreset) + Len(fromMetadata) + 3
                /\ SubSeq(cmd, 1, Len(fromPreset)) = fromPreset
                /\ \E k \in Len(fromPreset)..(n - 3 - Len(fromMetadata)) :
                      SubSeq(cmd, k + 1, k + Len(fromMetadata)) = fromMetadata
                /\ cmd[n - 2] = <<InputOf(inv[s])>>
                /\ cmd[n - 1] = <<"-o">>
                /\ Len(cmd[n]) = 1 /\ cmd[n][1] # ""

\* a docs_create has run a command with arguments from its preset and
\* arguments from the metadata of the call
C19_Witness ==
    \E s \in Slots :
        /\ Overrides(s) /\ Ended(s) /\ inv[s].tool = "docs_create"
        /\ inv[s].exited = 1
        /\ Len(applyPreset(NewArgs, inv[s].preset)) > 1
        /\ Len(applyMetadata(NewArgs, inv[s].metadata)) > 2


----------------------------------------------------------------------------
(* docs_compile and docs_delete_draft called with ids that are the id of    *)
(* an existing draft with characters put before it or after it.             *)

AffixChars == {".", "/", "-", "1"}

\* bound on the number of characters put before, or after, the id
MaxAffix == 3

Affixes == UNION { [1..k -> AffixChars] : k \in 0..MaxAffix }

IdCandidates ==
    { pre \o TheDraft : pre \in Affixes } \cup { TheDraft \o suf : suf \in Affixes }

DocIdOptions == { NoOptions, [NoOptions EXCEPT !.authors = "array"] }

\* the caller has taken what the invocation in slot s returned or threw
Taken(s) ==
    /\ inv[s].pc = "done"
    /\ inv' = [inv EXCEPT ![s] = NoInvocation]
    /\ UNCHANGED <<registryFile, docsDir, clock, cache>>

\* no invocation is in progress and no result is waiting to be taken
Idle == \A s \in Slots : inv[s].pc = "idle"

NextDocId ==
    \/ \E id \in IdCandidates, o \in DocIdOptions :
          Idle /\ DocsCompile("s1", id, o, TRUE) /\ UNCHANGED presetSide
    \/ \E id \in IdCandidates :
          Idle /\ DocsDeleteDraft("s1", id) /\ UNCHANGED presetSide
    \/ Taken("s1") /\ UNCHANGED presetSide
    \/ \E e \in ProcExits : ProcExit("s1", e[1], EmptyText, e[2]) /\ UNCHANGED presetSide
    \/ RmExit("s1") /\ UNCHANGED presetSide
    \/ DeleteAfterRm("s1") /\ UNCHANGED presetSide
    \/ CompileAfterExecute("s1") /\ UNCHANGED presetSide
    \/ CompileAfterCleanup("s1") /\ UNCHANGED presetSide

SpecDocId == InitTools /\ [][NextDocId]_vars

\* the call that the step makes ended with "Invalid document ID format"
Rejected(s) ==
    /\ inv'[s].pc = "done"
    /\ inv'[s].result.text = "Invalid document ID format"

\* C21: a doc_id that docs_compile or docs_delete_draft does not reject has
\* no "/" in it and is not "." or "..", and the draft directory the
\* invocation then works on is the child of .opencode/docs named by the id;
\* a call that rejects its doc_id computes no draft directory, changes no
\* file and starts no process
C21_NoPathTraversal ==
    [][\A s \in Slots :
          (CompileCalled(s) \/ DeleteCalled(s)) =>
              LET docId == inv'[s].args.doc_id IN
              /\ Rejected(s) =>
                    /\ inv'[s].dir = <<>>
                    /\ docsDir' = docsDir /\ registryFile' = registryFile
                    /\ inv'[s].helper = <<>> /\ inv'[s].spawned = 0
              /\ ~Rejected(s) =>
                    /\ \A i \in 1..Len(docId) : docId[i] # "/"
                    /\ docId \notin {<<".">>, <<".", ".">>}
                    /\ inv'[s].dir # <<>> => inv'[s].dir = Append(DocsBase, docId)]_vars

\* docs_delete_draft has removed the directory of the draft, a child of
\* .opencode/docs, and its entry
C21_Witness ==
    /\ inv["s1"].pc = "done" /\ inv["s1"].tool = "docs_delete_draft"
    /\ inv["s1"].result.text = "Deleted draft"
    /\ inv["s1"].dir = Append(DocsBase, TheDraft)
    /\ ~Has(docsDir, TheDraft)


\* C22: the id a docs_draft invocation returns is not a key of the registry
\* it read, so the invocation replaces neither an entry of the registry nor
\* the files of a draft
C22_DraftIdIsNew ==
    [][\A s \in Slots : DraftReturned(s) =>
          /\ ~Has(Drafts(registryFile), inv'[s].result.docId)
          /\ ~Has(docsDir, inv'[s].result.docId)]_vars


\* the step is a docs_compile call that fails before it runs pandoc (preset
\* or logo not found, template missing, invalid authors JSON)
CompileFailedEarly(s) ==
    /\ CompileCalled(s)
    /\ inv'[s].pc = "done" /\ inv'[s].result.thrown

\* C23: a docs_compile that fails leaves the status and last_modified of
\* the entry as they were, so that an entry is "compiled" only after a
\* docs_compile of its id that succeeded
C23_FailedCompileKeepsStatus ==
    [][\A s \in Slots : CompileFailedEarly(s) =>
          \A k \in DOMAIN Drafts(registryFile) :
              /\ Drafts(registryFile')[k].status = Drafts(registryFile)[k].status
              /\ Drafts(registryFile')[k].last_modified
                    = Drafts(registryFile)[k].last_modified]_vars


Uncached(name, logo) == loadPreset(name, logo, <<>>, MaxDepth)

\* C25: distinct <<name, logo option>> pairs do not share a cache entry: a
\* loadPreset request that is served from the cache returns the preset that
\* resolving that name with that logo option gives, never the preset cached
\* for a request with another name or another logo option
C25_CacheEntryPerRequest ==
    (last.op = "load" /\ last.result.hit)
        => /\ Uncached(last.name, last.logo).status = "ok"
           /\ last.result.value = Uncached(last.name, last.logo).value


\* the directory an invocation writes its authors metadata file to
MetaFileDir(call) ==
    IF call.tool = "docs_compile" THEN call.args.doc_id ELSE TmpDir

\* the invocation has ended after it wrote an authors metadata file
EndedWithAuthorsFile(s) ==
    /\ inv[s].pc = "done"
    /\ inv[s].tool \in {"docs_compile", "docs_create_school_report"}
    /\ inv[s].metaFile # ""

\* C26: when an invocation of docs_compile or docs_create_school_report that
\* wrote a temporary authors metadata file has ended, by a return or by a
\* throw, that file is no longer there
C26_AuthorsFileRemoved ==
    \A s \in Slots :
        EndedWithAuthorsFile(s)
            => inv[s].metaFile \notin FilesOf(docsDir, MetaFileDir(inv[s]))


----------------------------------------------------------------------------
(* Listing the presets *)

\* the preset names of the model in the order of localeCompare
KnownNames ==
    <<"a", "a:b", "acm-sigconf", "c", "eisvogel", "ieee-conference", "ieee-journal",
      "lncs", "loop", "school-report">>

\* Object.keys(BUILTIN_PRESETS), in the order of the table
BuiltinNames ==
    <<"school-report", "ieee-conference", "ieee-journal", "acm-sigconf", "lncs",
      "eisvogel">>

\* the preset files of one scope as the resolver lists them
ScopePresets(scope) ==
    SelectSeq([i \in 1..Len(KnownNames) |->
                  [name |-> KnownNames[i], source |-> scope,
                   path |-> PresetPath(scope, KnownNames[i])]],
              LAMBDA e : <<scope, e.name>> \in DOMAIN files)

\* resolver.listPresets(): the preset files of every scope, the project first
resolverListPresetFiles ==
    ScopePresets("project") \o ScopePresets("user") \o ScopePresets("builtin")

NamesOf(presets) == { presets[i].name : i \in 1..Len(presets) }

\* the entry pushed for a preset file: description is that of the file read
FileEntry(preset) ==
    IF Has(files[<<preset.source, preset.name>>], "description")
    THEN [name |-> preset.name,
          description |-> files[<<preset.source, preset.name>>].description,
          source |-> preset.source, path |-> preset.path]
    ELSE [name |-> preset.name, source |-> preset.source, path |-> preset.path]

\* the loop over the preset files: a name already seen is skipped
RECURSIVE addFsPresets(_, _)
addFsPresets(presets, fsPresets) ==
    IF fsPresets = <<>> THEN presets
    ELSE addFsPresets(IF Head(fsPresets).name \in NamesOf(presets) THEN presets
                      ELSE Append(presets, FileEntry(Head(fsPresets))),
                      Tail(fsPresets))

\* the loop over the built-in table: a name seen among the files is skipped
RECURSIVE addBuiltins(_, _, _)
addBuiltins(presets, seen, names) ==
    IF names = <<>> THEN presets
    ELSE addBuiltins(IF Head(names) \in seen THEN presets
                     ELSE Append(presets,
                                 [name |-> Head(names),
                                  description |-> BUILTIN_PRESETS[Head(names)].description,
                                  source |-> "builtin", path |-> <<"builtin">>]),
                     seen, Tail(names))

\* presets.sort((a, b) => a.name.localeCompare(b.name)), a stable sort
RECURSIVE sortByName(_, _)
sortByName(presets, i) ==
    IF i > Len(KnownNames) THEN <<>>
    ELSE SelectSeq(presets, LAMBDA e : e.name = KnownNames[i])
            \o sortByName(presets, i + 1)

listPresets ==
    LET fs == addFsPresets(<<>>, resolverListPresetFiles)
    IN  sortByName(addBuiltins(fs, NamesOf(fs), BuiltinNames), 1)

RECURSIVE getPresetInfo(_, _)
getPresetInfo(presetName, depth) ==
    LET isBuiltin == presetName \in DOMAIN BUILTIN_PRESETS
        resolved  == IF isBuiltin THEN NotResolved ELSE resolvePreset(presetName)
    IN
    IF ~isBuiltin /\ ~resolved.found
    THEN [status |-> "not_found", preset |-> presetName]
    ELSE
    LET own      == IF isBuiltin THEN BUILTIN_PRESETS[presetName]
                    ELSE files[<<resolved.source, presetName>>]
        inherits == Has(own, "extends") /\ own.extends # ""
    IN
    IF inherits /\ depth = 0 THEN [status |-> "stack_overflow"]
    ELSE
    LET parentInfo == IF inherits THEN getPresetInfo(own.extends, depth - 1)
                      ELSE [status |-> "ok"]
    IN
    IF parentInfo.status # "ok" THEN parentInfo
    ELSE
    LET config == IF inherits THEN mergePresets(parentInfo.config, own) ELSE own
    IN  [status |-> "ok", config |-> config,
         source |-> IF isBuiltin THEN "builtin" ELSE resolved.source,
         path |-> IF isBuiltin THEN <<"builtin">> ELSE resolved.path,
         available_logos |-> IF Has(config, "logos") THEN DOMAIN config.logos ELSE {},
         template_available |->
             /\ Has(config, "template") /\ TruthyPath(config.template, "path")
             /\ resolveTemplate(config.template.path).found,
         csl_available |->
             /\ Has(config, "citation") /\ TruthyPath(config.citation, "csl_file")
             /\ resolveCsl(config.citation.csl_file).found]

\* presetManager.listPresets()
ListPresets ==
    /\ last' = [op |-> "list", presets |-> listPresets]
    /\ UNCHANGED <<files, installed, cache, returned>>

\* await presetManager.getPresetInfo(name)
GetPresetInfo(name) ==
    /\ last' = [op |-> "info", name |-> name, result |-> getPresetInfo(name, MaxDepth)]
    /\ UNCHANGED <<files, installed, cache, returned>>

ListLoadInputs == { <<"a", "">>, <<"eisvogel", "">>, <<"c", "">> }

InfoInputs == { "a", "c", "eisvogel", "lncs", "loop", "nope" }

NextList ==
    \/ \E e \in CreateInputs : CreatePreset(e[1], e[2], e[3]) /\ UNCHANGED <<mergeVars, builderVars, pluginVars>>
    \/ \E i \in ListLoadInputs : LoadPreset(i[1], i[2]) /\ UNCHANGED <<mergeVars, builderVars, pluginVars>>
    \/ ListPresets /\ UNCHANGED <<mergeVars, builderVars, pluginVars>>
    \/ \E n \in InfoInputs : GetPresetInfo(n) /\ UNCHANGED <<mergeVars, builderVars, pluginVars>>

SpecList == InitPreset /\ [][NextList]_vars

\* C27: listPresets returns each available preset name once, and the source
\* it reports for a name is the source_type of the preset loadPreset returns
\* for that name and the source getPresetInfo reports for it
C27_ListAgreesWithLoad ==
    last.op = "list" =>
        /\ NamesOf(last.presets) = listPresetNames
        /\ \A i, j \in 1..Len(last.presets) :
               last.presets[i].name = last.presets[j].name => i = j
        /\ \A i \in 1..Len(last.presets) :
               /\ loadPreset(last.presets[i].name, "", cache, MaxDepth).status = "ok"
                    => loadPreset(last.presets[i].name, "", cache, MaxDepth).value.source_type
                         = last.presets[i].source
               /\ getPresetInfo(last.presets[i].name, MaxDepth).status = "ok"
                    => getPresetInfo(last.presets[i].name, MaxDepth).source
                         = last.presets[i].source


\* the ids that are keys of the registry or names of draft directories
KnownIds == (DOMAIN Drafts(registryFile)) \cup (DOMAIN docsDir)

\* C28: when the docs_draft, docs_compile and docs_delete_draft invocations
\* run one at a time have all ended, a document id is a key of the registry
\* if and only if its draft directory with draft.md in it exists
C28_RegistryMatchesDirs ==
    Quiet => \A id \in KnownIds :
                 Has(Drafts(registryFile), id) <=> "draft.md" \in FilesOf(docsDir, id)

\* a draft was deleted while another one stays, after a compile
C28_Witness ==
    /\ Quiet
    /\ inv["s1"].pc = "done" /\ inv["s1"].tool = "docs_delete_draft"
    /\ inv["s1"].result = Returns("Deleted draft")
    /\ ~Has(docsDir, inv["s1"].args.doc_id)
    /\ \E id \in DOMAIN Drafts(registryFile) :
           /\ Drafts(registryFile)[id].status = "compiled"
           /\ "draft.md" \in FilesOf(docsDir, id)


----------------------------------------------------------------------------
(* Every id generateDocId can give *)

\* the ADJECTIVES array of the source
AdjectiveWords ==
    { <<"a", "m", "b", "e", "r">>, <<"a", "n", "c", "i", "e", "n", "t">>,
      <<"a", "u", "t", "u", "m", "n">>, <<"b", "o", "l", "d">>,
      <<"b", "r", "a", "v", "e">>, <<"b", "r", "i", "g", "h", "t">>,
      <<"c", "a", "l", "m">>, <<"c", "l", "e", "v", "e", "r">>, <<"c", "o", "o", "l">>,
      <<"c", "r", "i", "m", "s", "o", "n">>, <<"c", "u", "r", "i", "o", "u", "s">>,
      <<"d", "a", "r", "i", "n", "g">>, <<"d", "e", "e", "p">>,
      <<"e", "a", "g", "e", "r">>, <<"e", "l", "e", "g", "a", "n", "t">>,
      <<"f", "i", "e", "r", "c", "e">>, <<"g", "e", "n", "t", "l", "e">>,
      <<"g", "o", "l", "d", "e", "n">>, <<"g", "r", "a", "c", "e", "f", "u", "l">>,
      <<"h", "a", "p", "p", "y">>, <<"h", "i", "d", "d", "e", "n">>,
      <<"j", "a", "d", "e">>, <<"j", "o", "y", "f", "u", "l">>, <<"k", "i", "n", "d">>,
      <<"l", "i", "v", "e", "l", "y">>, <<"l", "u", "c", "k", "y">>,
      <<"m", "i", "g", "h", "t", "y">>, <<"m", "i", "s", "t", "y">>,
      <<"m", "o", "d", "e", "r", "n">>, <<"m", "y", "s", "t", "i", "c">>,
      <<"n", "o", "b", "l", "e">>, <<"p", "e", "a", "c", "e", "f", "u", "l">>,
      <<"p", "u", "r", "p", "l", "e">>, <<"q", "u", "i", "e", "t">>,
      <<"r", "a", "p", "i", "d">>, <<"r", "o", "y", "a", "l">>,
      <<"r", "u", "s", "t", "i", "c">>, <<"s", "e", "r", "e", "n", "e">>,
      <<"s", "i", "l", "e", "n", "t">>, <<"s", "i", "l", "v", "e", "r">>,
      <<"s", "m", "o", "o", "t", "h">>, <<"s", "o", "l", "i", "d">>,
      <<"s", "p", "r", "i", "n", "g">>, <<"s", "t", "e", "a", "d", "y">>,
      <<"s", "u", "m", "m", "e", "r">>, <<"s", "w", "i", "f", "t">>,
      <<"t", "e", "n", "d", "e", "r">>, <<"v", "i", "v", "i", "d">>,
      <<"w", "a", "r", "m">>, <<"w", "i", "l", "d">>, <<"w", "i", "s", "e">>,
      <<"y", "o", "u", "n", "g">>, <<"z", "e", "a", "l", "o", "u", "s">>,
      <<"a", "z", "u", "r", "e">>, <<"b", "l", "a", "z", "i", "n", "g">>,
      <<"b", "r", "e", "e", "z", "y">>, <<"c", "o", "s", "m", "i", "c">>,
      <<"c", "r", "y", "s", "t", "a", "l">>, <<"d", "a", "w", "n">>,
      <<"d", "u", "s", "k">> }

\* the NOUNS array of the source
NounWords ==
    { <<"a", "p", "p", "l", "e">>, <<"a", "r", "r", "o", "w">>,
      <<"a", "u", "t", "u", "m", "n">>, <<"b", "e", "a", "c", "h">>,
      <<"b", "i", "r", "d">>, <<"b", "l", "o", "o", "m">>,
      <<"b", "r", "e", "e", "z", "e">>, <<"b", "r", "o", "o", "k">>,
      <<"c", "a", "n", "y", "o", "n">>, <<"c", "l", "o", "u", "d">>,
      <<"c", "o", "r", "a", "l">>, <<"c", "r", "a", "n", "e">>,
      <<"c", "r", "y", "s", "t", "a", "l">>, <<"d", "o", "l", "p", "h", "i", "n">>,
      <<"d", "r", "e", "a", "m">>, <<"e", "a", "g", "l", "e">>,
      <<"f", "i", "e", "l", "d">>, <<"f", "l", "a", "m", "e">>,
      <<"f", "l", "o", "w", "e", "r">>, <<"f", "o", "r", "e", "s", "t">>,
      <<"f", "o", "u", "n", "t", "a", "i", "n">>, <<"g", "a", "r", "d", "e", "n">>,
      <<"g", "a", "t", "e">>, <<"g", "l", "a", "d", "e">>, <<"g", "r", "o", "v", "e">>,
      <<"h", "a", "r", "b", "o", "r">>, <<"h", "a", "v", "e", "n">>,
      <<"h", "i", "l", "l">>, <<"h", "o", "r", "i", "z", "o", "n">>,
      <<"i", "s", "l", "a", "n", "d">>, <<"j", "o", "u", "r", "n", "e", "y">>,
      <<"l", "a", "k", "e">>, <<"l", "e", "a", "f">>, <<"m", "e", "a", "d", "o", "w">>,
      <<"m", "i", "r", "r", "o", "r">>, <<"m", "i", "s", "t">>, <<"m", "o", "o", "n">>,
      <<"m", "o", "u", "n", "t", "a", "i", "n">>, <<"n", "i", "g", "h", "t">>,
      <<"o", "c", "e", "a", "n">>, <<"o", "r", "c", "h", "a", "r", "d">>,
      <<"p", "e", "a", "k">>, <<"p", "i", "n", "e">>, <<"p", "o", "n", "d">>,
      <<"r", "a", "i", "n">>, <<"r", "a", "v", "i", "n", "e">>,
      <<"r", "i", "v", "e", "r">>, <<"r", "o", "a", "d">>, <<"r", "o", "c", "k">>,
      <<"r", "o", "s", "e">>, <<"s", "a", "n", "d", "s">>, <<"s", "e", "a">>,
      <<"s", "h", "a", "d", "e">>, <<"s", "k", "y">>, <<"s", "p", "r", "i", "n", "g">>,
      <<"s", "t", "a", "r">>, <<"s", "t", "o", "n", "e">>,
      <<"s", "t", "r", "e", "a", "m">>, <<"s", "u", "n">>,
      <<"s", "u", "n", "s", "e", "t">>, <<"s", "u", "r", "f">>, <<"s", "w", "a", "n">>,
      <<"t", "i", "d", "e">>, <<"t", "o", "w", "e", "r">>, <<"t", "r", "e", "e">>,
      <<"v", "a", "l", "l", "e", "y">>, <<"w", "a", "v", "e">>,
      <<"w", "i", "l", "l", "o", "w">>, <<"w", "i", "n", "d">>, <<"w", "o", "o", "d">> }

\* Math.floor(Math.random() * 900) + 100 gives 100..999
MinNumber == 100

MaxNumber == 999

\* the numbers the ids are checked for: the ends of the range and one inside
IdNumbers == {MinNumber, MaxNumber} \cup DocNumbers

\* the values of Date.now() the fallback ids are checked for
IdTimes == {0, 7, 10, 4321}

InitIds ==
    /\ files = <<>> /\ installed = {} /\ cache = <<>> /\ returned = <<>>
    /\ last \in { [op |-> "random", adj |-> adj, noun |-> noun, num |-> num] :
                     adj \in AdjectiveWords, noun \in NounWords, num \in IdNumbers }
    /\ IdleMerge /\ IdleBuilder /\ IdlePlugin

\* generateUniqueDocId returns the id of an attempt
GenerateId ==
    /\ last.op = "random"
    /\ last' = [op |-> "id", fallback |-> FALSE,
                id |-> DocId(last.adj, last.noun, last.num)]
    /\ UNCHANGED <<files, installed, cache, returned>>

\* generateUniqueDocId returns `${generateDocId()}-${Date.now()}`
GenerateFallbackId(now) ==
    /\ last.op = "random"
    /\ last' = [op |-> "id", fallback |-> TRUE,
                id |-> DocId(last.adj, last.noun, last.num) \o <<"-">> \o DigitsOf(now)]
    /\ UNCHANGED <<files, installed, cache, returned>>

NextIds ==
    \/ GenerateId /\ UNCHANGED <<mergeVars, builderVars, pluginVars>>
    \/ \E now \in IdTimes : GenerateFallbackId(now) /\ UNCHANGED <<mergeVars, builderVars, pluginVars>>

SpecIds == InitIds /\ [][NextIds]_vars

\* C29: every id docs_draft can generate, of the form adjective-noun-number
\* or with the time appended by the fallback, is accepted by isValidDocId
C29_GeneratedIdIsValid ==
    last.op = "id" => isValidDocId(last.id)

\* a fallback id of the last adjective and noun of the lists with the largest number
C29_Witness ==
    /\ last.op = "id" /\ last.fallback
    /\ last.id = <<"d", "u", "s", "k", "-", "w", "o", "o", "d", "-", "9", "9", "9",
                   "-", "4", "3", "2", "1">>
    /\ isValidDocId(last.id)


\* the step is a call of docs_list_drafts in slot s
ListCalled(s) ==
    /\ inv'[s].pc # "idle" /\ inv'[s].tool = "docs_list_drafts"
    /\ DocsListDrafts(s)

\* the step is a docs_compile or docs_delete_draft call with an id of invalid
\* format or an id that is not a key of the registry
CalledWithoutDraft(s) ==
    /\ CompileCalled(s) \/ DeleteCalled(s)
    /\ \/ ~isValidDocId(inv'[s].args.doc_id)
       \/ inv'[s].args.doc_id \notin DOMAIN Drafts(registryFile)

\* the step leaves the registry file and the draft directories as they are,
\* and the invocation in slot s has ended without starting a process
NothingDone(s) ==
    /\ registryFile' = registryFile
    /\ docsDir' = docsDir
    /\ inv'[s].pc = "done"
    /\ inv'[s].spawned = 0 /\ inv'[s].cmd = <<>> /\ inv'[s].helper = <<>>

\* C30: docs_compile and docs_delete_draft called with an id of invalid
\* format, or one that is not a key of the registry, leave the registry file
\* and every draft directory unchanged and start no process; docs_list_drafts
\* changes neither the registry nor any draft file
C30_RejectedCallsChangeNothing ==
    [][\A s \in Slots :
          /\ CalledWithoutDraft(s) => NothingDone(s)
          /\ ListCalled(s) => NothingDone(s)]_vars

\* docs_delete_draft of a well-formed id without entry was turned down while
\* a compiled draft is in the registry and on disk
C30_Witness ==
    /\ inv["s1"].pc = "done" /\ inv["s1"].tool = "docs_delete_draft"
    /\ isValidDocId(inv["s1"].args.doc_id)
    /\ inv["s1"].args.doc_id \notin DOMAIN Drafts(registryFile)
    /\ inv["s1"].result = Returns("Draft not found")
    /\ \E id \in DOMAIN Drafts(registryFile) :
           /\ Drafts(registryFile)[id].status = "compiled"
           /\ "draft.md" \in FilesOf(docsDir, id)

====
